---- MODULE Spec2Model ----
(***************************************************************************)
(* Coordination core of reachy-recognizer.                                 *)
(*                                                                         *)
(* EventManager (src/src/events/event_system.py): per-identity debouncing  *)
(* of per-frame recognition results into PERSON_RECOGNIZED,                *)
(* PERSON_UNKNOWN, PERSON_DEPARTED and NO_FACES events, the event history  *)
(* and the callback registry.                                              *)
(*                                                                         *)
(* BehaviorManager (src/src/behaviors/behavior_module.py): the priority   *)
(* and interruptibility rule of execute_behavior, the worker thread of     *)
(* each accepted behavior, the shared stop flag and the scheduler lock.    *)
(*                                                                         *)
(* Omitted payload: RecognitionEvent.timestamp and the bounding boxes      *)
(* (bbox, last_bbox) and accuracy_metrics; no branch of the modelled code  *)
(* reads them.                                                             *)
(***************************************************************************)
EXTENDS Integers, Sequences, FiniteSets, TLC

\* ------------------------------------------------------------------------
\* Bounds of the exploration
\* ------------------------------------------------------------------------
MaxDebounce == 2
MaxDeparted == 2
MaxHistory == 2
MaxBatch == 2
MaxCount == 3
MaxFrame == 1
MaxCallbacks == 2
MaxSteps == 2
MaxWorkers == 2
MaxStat == 3
MaxThreads == 3
MaxPending == 2
MaxGreetings == 4
MaxSessionThreads == 2
MaxSessionGreetings == 3
MaxQuiet == 2

\* identities the recognizer reports; "unknown" is the reserved sentinel
Names == {"Alice", "unknown"}
Confidences == {85}
CallbackFns == {"returns", "raises"}

\* frame_number: Optional[int] = None
None == -1

\* ------------------------------------------------------------------------
\* EventType
\* ------------------------------------------------------------------------
PERSON_RECOGNIZED == "person_recognized"
PERSON_UNKNOWN == "person_unknown"
PERSON_DEPARTED == "person_departed"
NO_FACES == "no_faces"
EventType == {PERSON_RECOGNIZED, PERSON_UNKNOWN, PERSON_DEPARTED, NO_FACES}

VARIABLES
    debounce_frames,   \* self.debounce_frames
    departed_frames,   \* self.departed_frames
    max_history,       \* self.max_history
    event_history,     \* self.event_history (deque, oldest first)
    callbacks,         \* self.callbacks: EventType -> list of (id, fn)
    current_state,     \* self.current_state (dict, in insertion order)
    frame_count,       \* self.frame_count
    next_callback_id,  \* self.next_callback_id
    last_op,           \* the operation that produced this state
    last_args,         \* arguments of the last process_recognition_results
    events,            \* list returned by the last process_recognition_results
    call_raised,       \* an exception left the last process_recognition_results
    callback_log,      \* callback invocations made during the last call
    quiet_run,         \* what the last call does when no callback raises
    presence,          \* per identity: observed run lengths over the calls
    prior_kind,        \* per identity: kind of its last event before the last call
    prior_emitted,     \* kind of the last event emitted before the last call
    twin,              \* a second EventManager fed in lock-step (SpecPair)
    registry_call,     \* argument and return value of the operation that
                       \* produced this state, when it was add_callback,
                       \* remove_callback or get_recent_events
    issued,            \* ids that add_callback has returned
    removed,           \* ids for which remove_callback has returned True
    emitted,           \* the events emitted last, oldest first (SpecHistory)
    cleared            \* how many tracked identities and history entries the
                       \* reset() that produced this state discarded

VARIABLES
    current_behavior,       \* self.current_behavior
    behavior_thread,        \* self.behavior_thread (0: None)
    stop_flag,              \* self.stop_flag (threading.Event)
    behaviors_executed,     \* self.behaviors_executed
    behaviors_interrupted,  \* self.behaviors_interrupted
    workers,                \* the threads running _run_behavior
    caller,                 \* the thread calling execute_behavior; it holds
                            \* self.lock while it is not idle
    sched_step,             \* the scheduler step that produced this state
    returned,               \* what the last execute_behavior returned
    timed_out,              \* the last join ended with the thread alive
    calls_accepted          \* the execute_behavior calls that returned True

bvars == <<current_behavior, behavior_thread, stop_flag, behaviors_executed,
           behaviors_interrupted, workers, caller, sched_step, returned,
           timed_out, calls_accepted>>

evars == <<debounce_frames, departed_frames, max_history, event_history,
           callbacks, current_state, frame_count, next_callback_id,
           last_op, last_args, events, call_raised, callback_log, quiet_run,
           presence,
           prior_kind, prior_emitted, twin,
           registry_call, issued, removed, emitted, cleared>>

VARIABLES
    greeted_persons,        \* self.greeted_persons
    greeting_in_progress,   \* self.greeting_in_progress
    pending_greetings,      \* self.pending_greetings
    total_greetings,        \* self.total_greetings
    latencies,              \* len(self.latencies)
    handlers,               \* the threads inside _on_person_recognized
    delivered,              \* the events the tracker has delivered so far
    overtaken,              \* the threads whose response was under way when
                            \* reset_session was last called
    coord_step              \* the coordinator step that produced this state

cvars == <<greeted_persons, greeting_in_progress, pending_greetings,
           total_greetings, latencies, handlers, delivered, overtaken,
           coord_step>>

VARIABLES
    idle_active,            \* self.active of the IdleManager
    last_face_time,         \* None, or the time that has passed since
                            \* self.last_face_time, up to the threshold
    idle_running,           \* self.running
    monitor,                \* where the thread of _monitor_loop stands
    last_notice,            \* which of notify_face_detected and
                            \* notify_no_faces was called last
    idle_step               \* the IdleManager step that produced this state

ivars == <<idle_active, last_face_time, idle_running, monitor, last_notice,
           idle_step>>

vars == <<evars, bvars, cvars, ivars>>

\* ------------------------------------------------------------------------
\* Helpers
\* ------------------------------------------------------------------------
Min(a, b) == IF a < b THEN a ELSE b

Max(a, b) == IF a > b THEN a ELSE b

\* one recognition result (name, confidence, bbox)
Observations == [name : Names, confidence : Confidences]

\* the result lists a frame can produce: one entry per detected face, so
\* the same name may occur more than once
Batches == UNION {[1..k -> Observations] : k \in 0..MaxBatch}

FrameArgs == {None} \cup (1..MaxFrame)

\* name in self.current_state
IndexOfName(cs, name) ==
    IF \E i \in DOMAIN cs : cs[i].name = name
    THEN CHOOSE i \in DOMAIN cs : cs[i].name = name
    ELSE 0

TrackedNames(cs) == {cs[i].name : i \in DOMAIN cs}

\* current_names after the detection loop
CurrentNames(results) == {results[i].name : i \in DOMAIN results}

RECURSIVE RemoveNames(_, _)
\* for name in departed_names: del self.current_state[name]
RemoveNames(cs, gone) ==
    IF cs = <<>> THEN <<>>
    ELSE IF Head(cs).name \in gone THEN RemoveNames(Tail(cs), gone)
    ELSE <<Head(cs)>> \o RemoveNames(Tail(cs), gone)

\* PersonState(name=name, consecutive_frames=1, last_confidence=confidence)
NewPersonState(name, confidence) ==
    [name |-> name, consecutive_frames |-> 1, departed_frames |-> 0,
     last_confidence |-> confidence, event_triggered |-> FALSE]

RecognitionEvent(event_type, person_name, confidence, frame_number) ==
    [event_type |-> event_type, person_name |-> person_name,
     confidence |-> confidence, frame_number |-> frame_number]

\* debounce_frames = max(1, int(debounce_seconds * fps))
SecondsToFrames(product) == Max(1, product)

\* variant: a deque without maxlen
AddToHistoryUnbounded(history, maxlen, event) == Append(history, event)

\* deque(maxlen=max_history).append(event)
AddToHistory(history, maxlen, event) ==
    LET h == Append(history, event)
    IN  IF Len(h) > maxlen THEN SubSeq(h, Len(h) - maxlen + 1, Len(h)) ELSE h

LastEventWasNotNoFaces(history) ==
    IF Len(history) = 0 THEN TRUE
    ELSE history[Len(history)].event_type /= NO_FACES

\* ------------------------------------------------------------------------
\* EventManager._trigger_callbacks
\* ------------------------------------------------------------------------
\* variant: the call is not wrapped in try/except
InvokeCallbackUncaught(cb, event) ==
    [call |-> [callback_id |-> cb.callback_id, event |-> event,
               raised |-> cb.fn = "raises"],
     escaped |-> cb.fn = "raises"]

\* try: callback_fn(event) / except Exception: logger.error(...)
\* the exception of a raising callback is caught here and never escapes
InvokeCallback(cb, event) ==
    [call |-> [callback_id |-> cb.callback_id, event |-> event,
               raised |-> cb.fn = "raises"],
     escaped |-> FALSE]

RECURSIVE TriggerFrom(_, _, _)
\* for callback_id, callback_fn in self.callbacks[event.event_type]
TriggerFrom(cbs, event, i) ==
    IF i > Len(cbs) THEN [log |-> <<>>, escaped |-> FALSE]
    ELSE LET r == InvokeCallback(cbs[i], event)
         IN  IF r.escaped THEN [log |-> <<r.call>>, escaped |-> TRUE]
             ELSE LET rest == TriggerFrom(cbs, event, i + 1)
                  IN  [log |-> <<r.call>> \o rest.log, escaped |-> rest.escaped]

TriggerCallbacks(cbmap, event) == TriggerFrom(cbmap[event.event_type], event, 1)

\* what a callback finds in the manager when it is invoked for event:
\* the event is the newest entry of the history, and the identity of an
\* announce has event_triggered set
Seen(history, cs, event) ==
    [recorded |-> history /= <<>> /\ history[Len(history)] = event,
     flagged |-> event.event_type \in {PERSON_RECOGNIZED, PERSON_UNKNOWN}
                    => \E i \in DOMAIN cs : /\ cs[i].name = event.person_name
                                            /\ cs[i].event_triggered]

\* the invocations of log, each with what the callback found
WithSeen(log, seen) ==
    [k \in DOMAIN log |->
        [callback_id |-> log[k].callback_id, event |-> log[k].event,
         raised |-> log[k].raised, recorded |-> seen.recorded,
         flagged |-> seen.flagged]]

\* variant: the callbacks run before the event is put into the history
EmitCallbacksFirst(acc, cfg, event) ==
    LET t == TriggerCallbacks(cfg.callbacks, event)
        seen == Seen(acc.event_history, acc.current_state, event)
    IN  [acc EXCEPT !.events = Append(@, event),
                    !.event_history = AddToHistory(@, cfg.max_history, event),
                    !.callback_log = @ \o WithSeen(t.log, seen),
                    !.escaped = t.escaped]

\* events.append(event); self._add_to_history(event); self._trigger_callbacks(event)
Emit(acc, cfg, event) ==
    LET t == TriggerCallbacks(cfg.callbacks, event)
        h == AddToHistory(acc.event_history, cfg.max_history, event)
        seen == Seen(h, acc.current_state, event)
    IN  [acc EXCEPT !.events = Append(@, event),
                    !.event_history = h,
                    !.callback_log = @ \o WithSeen(t.log, seen),
                    !.escaped = t.escaped]

\* ------------------------------------------------------------------------
\* EventManager.process_recognition_results
\* ------------------------------------------------------------------------
\* variant: the sentinel is not told apart
AnnounceKindAlwaysRecognized(name) == PERSON_RECOGNIZED

\* if name == "unknown": PERSON_UNKNOWN else: PERSON_RECOGNIZED
AnnounceKind(name) ==
    IF name = "unknown" THEN PERSON_UNKNOWN ELSE PERSON_RECOGNIZED

\* variant: ">=" without the event_triggered test
ShouldAnnounceEveryFrame(st, debounce) ==
    st.consecutive_frames >= debounce

\* state.consecutive_frames == self.debounce_frames and not state.event_triggered
ShouldAnnounce(st, debounce) ==
    st.consecutive_frames = debounce /\ ~st.event_triggered

\* variant: the event_triggered test is missing
ShouldDepartUnannounced(st, departed) ==
    st.departed_frames = departed

\* state.departed_frames == self.departed_frames and state.event_triggered
ShouldDepart(st, departed) ==
    st.departed_frames = departed /\ st.event_triggered

\* person already being tracked: count the frame, reset the departed counter
MarkSeen(st, confidence) ==
    [st EXCEPT !.consecutive_frames = @ + 1,
               !.departed_frames = 0,
               !.last_confidence = confidence]

\* variant: the consecutive counter is not reset
MarkAbsentKeepingCount(st) ==
    [st EXCEPT !.departed_frames = @ + 1]

\* person not detected in this frame: count it, reset the consecutive counter
MarkAbsent(st) ==
    [st EXCEPT !.departed_frames = @ + 1,
               !.consecutive_frames = 0]

\* body of "for name, confidence, bbox in results"
DetectStep(acc, cfg, obs, frame_number) ==
    LET i == IndexOfName(acc.current_state, obs.name)
    IN  IF i > 0
        THEN LET st == MarkSeen(acc.current_state[i], obs.confidence)
             IN  IF ShouldAnnounce(st, cfg.debounce_frames)
                 THEN Emit([acc EXCEPT !.current_state[i] =
                                          [st EXCEPT !.event_triggered = TRUE]],
                           cfg,
                           RecognitionEvent(AnnounceKind(obs.name), obs.name,
                                            obs.confidence, frame_number))
                 ELSE [acc EXCEPT !.current_state[i] = st]
        ELSE [acc EXCEPT !.current_state =
                            Append(@, NewPersonState(obs.name, obs.confidence))]

RECURSIVE DetectLoop(_, _, _, _, _)
DetectLoop(acc, cfg, results, frame_number, k) ==
    IF k > Len(results) \/ acc.escaped THEN acc
    ELSE DetectLoop(DetectStep(acc, cfg, results[k], frame_number),
                    cfg, results, frame_number, k + 1)

\* body of "for name, state in self.current_state.items()"
DepartStep(acc, cfg, i, current_names, frame_number) ==
    LET old == acc.current_state[i]
    IN  IF old.name \in current_names THEN acc
        ELSE LET st == MarkAbsent(old)
                 a1 == [acc EXCEPT !.current_state[i] = st]
             IN  IF ShouldDepart(st, cfg.departed_frames)
                 THEN LET a2 == Emit(a1, cfg,
                                     RecognitionEvent(PERSON_DEPARTED, st.name,
                                                      0, frame_number))
                      IN  IF a2.escaped THEN a2
                          ELSE [a2 EXCEPT !.departed_names = @ \cup {st.name}]
                 ELSE a1

RECURSIVE DepartLoop(_, _, _, _, _)
DepartLoop(acc, cfg, i, current_names, frame_number) ==
    IF i > Len(acc.current_state) \/ acc.escaped THEN acc
    ELSE DepartLoop(DepartStep(acc, cfg, i, current_names, frame_number),
                    cfg, i + 1, current_names, frame_number)

\* for name in departed_names: del self.current_state[name]
RemoveDeparted(acc) ==
    IF acc.escaped THEN acc
    ELSE [acc EXCEPT !.current_state = RemoveNames(@, acc.departed_names)]

\* if len(results) == 0 and len(self.current_state) == 0:
\*     if self.frame_count == 1 or self._last_event_was_not_no_faces():
ShouldEmitNoFaces(acc, results, fc) ==
    /\ Len(results) = 0
    /\ Len(acc.current_state) = 0
    /\ (fc = 1 \/ LastEventWasNotNoFaces(acc.event_history))

NoFacesStep(acc, cfg, results, fc, frame_number) ==
    IF acc.escaped THEN acc
    ELSE IF ShouldEmitNoFaces(acc, results, fc)
         THEN Emit(acc, cfg, RecognitionEvent(NO_FACES, "", 0, frame_number))
         ELSE acc

\* the whole call; mgr holds current_state, event_history and frame_count
ProcessRecognitionResults(mgr, cfg, results, frame_arg) ==
    LET fc == IF frame_arg = None THEN mgr.frame_count + 1 ELSE mgr.frame_count
        frame_number == IF frame_arg = None THEN fc ELSE frame_arg
        a0 == [current_state |-> mgr.current_state,
               event_history |-> mgr.event_history,
               events |-> <<>>, callback_log |-> <<>>,
               departed_names |-> {}, escaped |-> FALSE]
        a1 == DetectLoop(a0, cfg, results, frame_number, 1)
        a2 == DepartLoop(a1, cfg, 1, CurrentNames(results), frame_number)
        a3 == RemoveDeparted(a2)
        a4 == NoFacesStep(a3, cfg, results, fc, frame_number)
    IN  [current_state |-> a4.current_state,
         event_history |-> a4.event_history,
         frame_count |-> fc,
         events |-> a4.events,
         callback_log |-> a4.callback_log,
         escaped |-> a4.escaped]

\* ------------------------------------------------------------------------
\* Observation of the calls (what a test harness around the manager records)
\* ------------------------------------------------------------------------
IsAnnounce(e) == e.event_type \in {PERSON_RECOGNIZED, PERSON_UNKNOWN}

\* the kinds of the events of list evs that concern identity n
KindsFor(n, evs) ==
    LET idx == {i \in DOMAIN evs : evs[i].person_name = n}
        F[k \in 0..Len(evs)] ==
            IF k = 0 THEN <<>>
            ELSE IF k \in idx THEN Append(F[k - 1], evs[k].event_type)
            ELSE F[k - 1]
    IN  F[Len(evs)]

CountAnnounces(n, evs) ==
    Cardinality({i \in DOMAIN evs : evs[i].person_name = n /\ IsAnnounce(evs[i])})

CountDeparted(n, evs) ==
    Cardinality({i \in DOMAIN evs :
                    evs[i].person_name = n /\ evs[i].event_type = PERSON_DEPARTED})

Observed(n, results) == \E i \in DOMAIN results : results[i].name = n

NoPresence ==
    [n \in Names |-> [run |-> 0, gap |-> 0, fresh |-> FALSE, announces |-> 0]]

\* run: consecutive calls, up to the last, in which n was observed
\* gap: consecutive calls, up to the last, in which n was not observed
\* fresh: n was not tracked when its current run began
\* announces: announce events for n during its current run
\* run and gap saturate one above the largest threshold
NextPresence(n, results, cs_before, evs) ==
    LET p == presence[n]
        i == IndexOfName(cs_before, n)
    IN  IF Observed(n, results)
        THEN [run |-> Min(p.run + 1, MaxDebounce + 1),
              gap |-> 0,
              fresh |-> IF p.run = 0 THEN i = 0 ELSE p.fresh,
              announces |-> (IF p.run = 0 THEN 0 ELSE p.announces)
                            + CountAnnounces(n, evs)]
        ELSE [run |-> 0,
              gap |-> IF p.run = 0 /\ p.gap = 0 THEN 0
                      ELSE Min(p.gap + 1, MaxDeparted + 1),
              fresh |-> FALSE,
              announces |-> CountAnnounces(n, evs)]

LastKindOf(prior, kinds) ==
    IF kinds = <<>> THEN prior ELSE kinds[Len(kinds)]

AllKinds(evs) == [i \in DOMAIN evs |-> evs[i].event_type]

\* ------------------------------------------------------------------------
\* State after EventManager.__init__
\* ------------------------------------------------------------------------
NoRun ==
    [current_state |-> <<>>, event_history |-> <<>>, frame_count |-> 0,
     events |-> <<>>]

\* Behavior(name, actions, interruptible, priority); steps is len(actions)
\* and blocking the blocking attribute of its actions
Behavior(name, steps, blocking, interruptible, priority) ==
    [name |-> name, steps |-> steps, blocking |-> blocking,
     interruptible |-> interruptible, priority |-> priority]

\* the module-level behaviors neutral_pose, curious_tilt, unknown_greeting
\* and greeting_wave
Behaviors ==
    {Behavior("neutral", MaxSteps, TRUE, TRUE, 3),
     Behavior("curious_tilt", MaxSteps, TRUE, TRUE, 6),
     Behavior("unknown_greeting", MaxSteps, TRUE, FALSE, 7),
     Behavior("greeting_wave", MaxSteps, TRUE, FALSE, 8)}

\* self.current_behavior is None
NoBehavior == Behavior("none", 0, FALSE, FALSE, 0)

\* no thread in this slot (never started, or terminated)
NoThread ==
    [behavior |-> NoBehavior, pc |-> "done", i |-> 0, preempted |-> FALSE,
     cancelled |-> FALSE]

\* no registry call or query made yet
NoCall == [arg |-> None, ret |-> None]

\* the persons the recognizer knows by name
People == {"Alice", "Bob", "Charlie"}

\* the confidence each of them is recognized with, in percent
GreetingConfidence ==
    [p \in People |-> IF p = "Alice" THEN 95 ELSE IF p = "Bob" THEN 88 ELSE 92]

\* what _on_person_recognized reads of a RecognitionEvent; held_by is the
\* identity of a queued event (two events of one person differ in
\* timestamp and frame_number): the threads whose loop variable in
\* _process_pending_greetings is this entry of pending_greetings
RecognizedEvent(person_name, confidence) ==
    [person_name |-> person_name, confidence |-> confidence, held_by |-> {}]

RecognizedEvents ==
    {RecognizedEvent(p, GreetingConfidence[p]) : p \in People}

NoEvent == RecognizedEvent("nobody", 0)

\* a thread that is not inside _on_person_recognized; done lists the
\* collaborator calls made so far in the thread's current response, raised
\* tells whether the last of them raised, and saved holds the entries of
\* pending_greetings while the thread sorts them
NoHandler ==
    [pc |-> "idle", event |-> NoEvent, done |-> <<>>, raised |-> FALSE,
     saved |-> <<>>]

Init ==
    /\ debounce_frames \in {SecondsToFrames(p) : p \in 0..MaxDebounce}
    /\ departed_frames \in {SecondsToFrames(p) : p \in 0..MaxDeparted}
    /\ max_history \in 1..MaxHistory
    /\ event_history = <<>>
    /\ callbacks = [t \in EventType |-> <<>>]
    /\ current_state = <<>>
    /\ frame_count = 0
    /\ next_callback_id = 0
    /\ last_op = "init"
    /\ last_args = [results |-> <<>>, frame_number |-> None]
    /\ events = <<>>
    /\ call_raised = FALSE
    /\ callback_log = <<>>
    /\ quiet_run = NoRun
    /\ presence = NoPresence
    /\ prior_kind = [n \in Names |-> "none"]
    /\ prior_emitted = "none"
    /\ twin = NoRun
    /\ registry_call = NoCall
    /\ issued = {}
    /\ removed = {}
    /\ emitted = <<>>
    /\ cleared = 0
    /\ current_behavior = NoBehavior
    /\ behavior_thread = 0
    /\ stop_flag = FALSE
    /\ behaviors_executed = 0
    /\ behaviors_interrupted = 0
    /\ workers = [w \in 1..MaxWorkers |-> NoThread]
    /\ caller = [pc |-> "idle", behavior |-> NoBehavior]
    /\ sched_step = [op |-> "init", worker |-> 0]
    /\ returned = "none"
    /\ timed_out = FALSE
    /\ calls_accepted = 0
    /\ greeted_persons = {}
    /\ greeting_in_progress = FALSE
    /\ pending_greetings = <<>>
    /\ total_greetings = 0
    /\ latencies = 0
    /\ handlers = [t \in 1..MaxThreads |-> NoHandler]
    /\ delivered = 0
    /\ overtaken = {}
    /\ coord_step = [op |-> "init", thread |-> 0, person |-> "nobody"]
    /\ idle_active = FALSE
    /\ last_face_time = None
    /\ idle_running = FALSE
    /\ monitor = "none"
    /\ last_notice = "none"
    /\ idle_step = [op |-> "init"]

Config ==
    [debounce_frames |-> debounce_frames, departed_frames |-> departed_frames,
     max_history |-> max_history, callbacks |-> callbacks]

Manager ==
    [current_state |-> current_state, event_history |-> event_history,
     frame_count |-> frame_count]

\* the registry with every callback returning normally
QuietCallbacks(cbmap) ==
    [t \in EventType |->
        [j \in DOMAIN cbmap[t] |-> [cbmap[t][j] EXCEPT !.fn = "returns"]]]

CountersWithin(cs) ==
    \A i \in DOMAIN cs : /\ cs[i].consecutive_frames <= MaxCount
                         /\ cs[i].departed_frames <= MaxCount

\* ------------------------------------------------------------------------
\* Operations
\* ------------------------------------------------------------------------
\* manager.process_recognition_results(results, frame_number=frame_arg):
\* the manager, what the call returns and the callbacks it invokes
SubmitEffects(results, frame_arg) ==
    \E r \in {ProcessRecognitionResults(Manager, Config, results, frame_arg)} :
    \E q \in {IF QuietCallbacks(callbacks) = callbacks THEN r
               ELSE ProcessRecognitionResults(
                        Manager,
                        [Config EXCEPT !.callbacks = QuietCallbacks(callbacks)],
                        results, frame_arg)} :
        /\ frame_arg = None => frame_count < MaxFrame
        /\ CountersWithin(r.current_state)
        /\ current_state' = r.current_state
        /\ event_history' = r.event_history
        /\ frame_count' = r.frame_count
        /\ events' = IF r.escaped THEN <<>> ELSE r.events
        /\ call_raised' = r.escaped
        /\ callback_log' = r.callback_log
        /\ quiet_run' = [current_state |-> q.current_state,
                         event_history |-> q.event_history,
                         frame_count |-> q.frame_count,
                         events |-> q.events]
        /\ last_op' = "submit"
        /\ registry_call' = NoCall
        /\ cleared' = 0
        /\ UNCHANGED <<debounce_frames, departed_frames, max_history,
                       callbacks, next_callback_id, issued, removed, bvars,
                   cvars, ivars>>

\* per identity, the run lengths and the kind of its last event that a
\* harness derives from the calls
ObserveRuns(results, frame_arg) ==
    \E r \in {ProcessRecognitionResults(Manager, Config, results, frame_arg)} :
        /\ presence' = [n \in Names |->
                           NextPresence(n, results, current_state, r.events)]
        /\ prior_kind' = [n \in Names |->
                             LastKindOf(prior_kind[n], KindsFor(n, events))]

\* the arguments of the call and the kind of the event emitted last before it
ObserveArgs(results, frame_arg) ==
    /\ last_args' = [results |-> results, frame_number |-> frame_arg]
    /\ prior_emitted' = LastKindOf(prior_emitted, AllKinds(events))

\* the last n elements of a sequence
LastN(seq, n) == SubSeq(seq, Max(1, Len(seq) - n + 1), Len(seq))

\* the events emitted so far, cut to the newest MaxHistory + 1
ObserveEmitted(results, frame_arg) ==
    \E r \in {ProcessRecognitionResults(Manager, Config, results, frame_arg)} :
        emitted' = LastN(emitted \o r.events, MaxHistory + 1)

\* the call, with the observations in watch switched on
Submit(results, frame_arg, watch) ==
    /\ SubmitEffects(results, frame_arg)
    /\ IF "runs" \in watch THEN ObserveRuns(results, frame_arg)
       ELSE UNCHANGED <<presence, prior_kind>>
    /\ IF "args" \in watch THEN ObserveArgs(results, frame_arg)
       ELSE UNCHANGED <<last_args, prior_emitted>>
    /\ IF "emitted" \in watch THEN ObserveEmitted(results, frame_arg)
       ELSE UNCHANGED emitted
    /\ UNCHANGED twin

\* an operation that is not a submit leaves the record of the last submit
NotASubmit(op) ==
    /\ last_op' = op
    /\ cleared' = 0
    /\ UNCHANGED <<last_args, events, call_raised, callback_log, quiet_run,
                   presence, prior_kind, prior_emitted, twin, emitted, bvars,
                   cvars, ivars>>

\* manager.add_callback(event_type, callback_fn)
AddCallback(event_type, fn) ==
    /\ next_callback_id < MaxCallbacks
    /\ callbacks' = [callbacks EXCEPT ![event_type] =
                        Append(@, [callback_id |-> next_callback_id, fn |-> fn])]
    /\ next_callback_id' = next_callback_id + 1
    /\ registry_call' = [arg |-> event_type, ret |-> next_callback_id]
    /\ issued' = issued \cup {next_callback_id}
    /\ NotASubmit("add_callback")
    /\ UNCHANGED <<debounce_frames, departed_frames, max_history,
                   event_history, current_state, frame_count, removed>>

\* variant: the entry is found but not popped
WithoutIdKeepingEntry(cbs, callback_id) == cbs

RECURSIVE WithoutId(_, _)
\* callbacks.pop(i) for the entry whose id is callback_id
WithoutId(cbs, callback_id) ==
    IF cbs = <<>> THEN <<>>
    ELSE IF Head(cbs).callback_id = callback_id THEN Tail(cbs)
    ELSE <<Head(cbs)>> \o WithoutId(Tail(cbs), callback_id)

\* the kinds under which an id is in the registry
KindsOf(cbmap, callback_id) ==
    {t \in EventType :
        \E j \in DOMAIN cbmap[t] : cbmap[t][j].callback_id = callback_id}

\* ids in the registry
RegisteredIds(cbmap) ==
    UNION {{cbmap[t][j].callback_id : j \in DOMAIN cbmap[t]} : t \in EventType}

\* manager.remove_callback(callback_id): True when the id was found
RemoveCallback(callback_id) ==
    LET found == callback_id \in RegisteredIds(callbacks)
    IN  /\ callbacks' = [t \in EventType |-> WithoutId(callbacks[t], callback_id)]
        /\ registry_call' = [arg |-> callback_id, ret |-> found]
        /\ removed' = IF found THEN removed \cup {callback_id} ELSE removed
        /\ NotASubmit("remove_callback")
        /\ UNCHANGED <<debounce_frames, departed_frames, max_history,
                       event_history, current_state, frame_count,
                       next_callback_id, issued>>

RECURSIVE Reverse(_)
\* events.reverse()
Reverse(seq) ==
    IF seq = <<>> THEN <<>> ELSE Reverse(Tail(seq)) \o <<Head(seq)>>

\* events = list(self.event_history); events.reverse(); events[:count]
RecentEvents(history, count) ==
    LET newest_first == Reverse(history)
    IN  IF count = None THEN newest_first
        ELSE SubSeq(newest_first, 1, Min(count, Len(newest_first)))

\* manager.get_recent_events(count)
GetRecentEvents(count) ==
    /\ registry_call' = [arg |-> count,
                         ret |-> RecentEvents(event_history, count)]
    /\ NotASubmit("get_recent_events")
    /\ UNCHANGED <<debounce_frames, departed_frames, max_history,
                   event_history, callbacks, current_state, frame_count,
                   next_callback_id, issued, removed>>

\* variant: self.current_state.clear() is missing
ResetKeepingTracked ==
    /\ event_history' = <<>>
    /\ current_state' = current_state
    /\ frame_count' = 0
    /\ last_op' = "reset"
    /\ last_args' = [results |-> <<>>, frame_number |-> None]
    /\ events' = <<>>
    /\ call_raised' = FALSE
    /\ callback_log' = <<>>
    /\ quiet_run' = NoRun
    /\ presence' = NoPresence
    /\ prior_kind' = [n \in Names |-> "none"]
    /\ prior_emitted' = "none"
    /\ registry_call' = NoCall
    /\ emitted' = <<>>
    /\ cleared' = Len(current_state) + Len(event_history)
    /\ UNCHANGED <<debounce_frames, departed_frames, max_history, callbacks,
                   next_callback_id, twin, issued, removed, bvars,
                   cvars, ivars>>

\* manager.reset()
Reset ==
    /\ event_history' = <<>>
    /\ current_state' = <<>>
    /\ frame_count' = 0
    /\ last_op' = "reset"
    /\ last_args' = [results |-> <<>>, frame_number |-> None]
    /\ events' = <<>>
    /\ call_raised' = FALSE
    /\ callback_log' = <<>>
    /\ quiet_run' = NoRun
    /\ presence' = NoPresence
    /\ prior_kind' = [n \in Names |-> "none"]
    /\ prior_emitted' = "none"
    /\ registry_call' = NoCall
    /\ emitted' = <<>>
    /\ cleared' = Len(current_state) + Len(event_history)
    /\ UNCHANGED <<debounce_frames, departed_frames, max_history, callbacks,
                   next_callback_id, twin, issued, removed, bvars,
                   cvars, ivars>>

\* ------------------------------------------------------------------------
\* BehaviorManager
\* ------------------------------------------------------------------------
\* self.behavior_thread is not None and self.behavior_thread.is_alive()
IsAlive(ws, w) == w /= 0 /\ ws[w].pc /= "done"

AliveWorkers(ws) == {w \in DOMAIN ws : ws[w].pc /= "done"}

\* variant: ">=" in place of ">"
OutranksOrEquals(behavior, active) == behavior.priority >= active.priority

\* not (behavior.priority <= self.current_behavior.priority)
Outranks(behavior, active) == behavior.priority > active.priority

\* variant: the interruptible test is missing
BlockedByPriorityOnly(active, behavior) ==
    /\ active /= NoBehavior
    /\ ~Outranks(behavior, active)

\* the two "return False" branches of execute_behavior
Blocked(active, behavior) ==
    /\ active /= NoBehavior
    /\ (~active.interruptible \/ ~Outranks(behavior, active))

\* variant: the behavior is run to its end on the calling thread
RunInline(ws, w, behavior) ==
    [ws EXCEPT ![w] = [behavior |-> behavior, pc |-> "finally",
                       i |-> behavior.steps + 1, preempted |-> FALSE,
                       cancelled |-> FALSE]]

\* threading.Thread(target=self._run_behavior, args=(behavior,)).start():
\* the new thread stands before its first step
StartThread(ws, w, behavior) ==
    [ws EXCEPT ![w] = [behavior |-> behavior, pc |-> "check", i |-> 1,
                       preempted |-> FALSE, cancelled |-> FALSE]]

\* the slot the next thread is modelled in
FreeSlot(ws) ==
    CHOOSE w \in DOMAIN ws :
        /\ ws[w].pc = "done"
        /\ \A v \in DOMAIN ws : ws[v].pc = "done" => w <= v

\* "Start new behavior" to "return True"; the thread that was current is
\* from now on the thread of a preempted behavior
StartBehavior(behavior, interrupting) ==
    LET old == behavior_thread
        marked == IF interrupting /\ IsAlive(workers, old)
                  THEN [workers EXCEPT ![old].preempted = TRUE]
                  ELSE workers
        w == FreeSlot(workers)
    IN  /\ current_behavior' = behavior
        /\ stop_flag' = FALSE
        /\ workers' = StartThread(marked, w, behavior)
        /\ behavior_thread' = w
        /\ behaviors_interrupted' =
              IF interrupting THEN behaviors_interrupted + 1
              ELSE behaviors_interrupted
        /\ returned' = "True"
        /\ calls_accepted' = calls_accepted + 1
        /\ caller' = [pc |-> "idle", behavior |-> behavior]
        /\ UNCHANGED behaviors_executed

\* variant: a rejected call stops the active behavior all the same
RejectStopping(behavior) ==
    /\ returned' = "False"
    /\ caller' = [pc |-> "idle", behavior |-> behavior]
    /\ sched_step' = [op |-> "rejected", worker |-> 0]
    /\ stop_flag' = TRUE
    /\ UNCHANGED <<current_behavior, behavior_thread,
                   behaviors_executed, behaviors_interrupted, workers,
                   timed_out, calls_accepted>>

\* execute_behavior returns False
Reject(behavior) ==
    /\ returned' = "False"
    /\ caller' = [pc |-> "idle", behavior |-> behavior]
    /\ sched_step' = [op |-> "rejected", worker |-> 0]
    /\ UNCHANGED <<current_behavior, behavior_thread, stop_flag,
                   behaviors_executed, behaviors_interrupted, workers,
                   timed_out, calls_accepted>>

\* the calls accepted so far: those that interrupted, those that ran to
\* their end and those whose behavior is running unpreempted; it keeps
\* both counters within 0..MaxStat
Accepted ==
    behaviors_executed + behaviors_interrupted
       + Cardinality({w \in AliveWorkers(workers) : ~workers[w].preempted})

\* manager.execute_behavior(behavior), from taking self.lock up to its
\* return or, when it interrupts a live thread, up to the join in
\* stop_current
ExecuteBehavior(behavior) ==
    /\ caller.pc = "idle"
    /\ IF Blocked(current_behavior, behavior)
       THEN Reject(behavior)
       ELSE /\ \E w \in DOMAIN workers : workers[w].pc = "done"
            /\ Accepted < MaxStat
            /\ IF current_behavior /= NoBehavior
                  /\ IsAlive(workers, behavior_thread)
               THEN /\ stop_flag' = TRUE
                    /\ caller' = [pc |-> "joining", behavior |-> behavior]
                    /\ sched_step' = [op |-> "stopping", worker |-> 0]
                    /\ UNCHANGED <<current_behavior, behavior_thread,
                                   behaviors_executed, behaviors_interrupted,
                                   workers, returned, timed_out,
                                   calls_accepted>>
               ELSE /\ StartBehavior(behavior, current_behavior /= NoBehavior)
                    /\ sched_step' = [op |-> "started", worker |-> 0]
                    /\ UNCHANGED timed_out
    /\ UNCHANGED <<evars, ivars, cvars>>

\* variant: join() without a timeout
JoinReturnsWhenDead(ws, w) == ~IsAlive(ws, w)

\* self.behavior_thread.join(timeout=2.0) returns when the thread has
\* terminated or when the two seconds are over
JoinReturns(ws, w) == TRUE

\* the rest of an interrupting execute_behavior: the join returns, the
\* warning is logged if the thread is still alive, the new behavior starts
FinishExecuteBehavior ==
    /\ caller.pc = "joining"
    /\ JoinReturns(workers, behavior_thread)
    /\ timed_out' = IsAlive(workers, behavior_thread)
    /\ StartBehavior(caller.behavior, TRUE)
    /\ sched_step' = [op |-> "joined", worker |-> 0]
    /\ UNCHANGED <<evars, ivars, cvars>>

\* what is recorded of a step of worker w: returned, timed_out and the
\* argument of a finished call describe the call that was the last step,
\* so a worker's step clears them
WorkerStep(op, w) ==
    /\ sched_step' = [op |-> op, worker |-> w]
    /\ returned' = "none"
    /\ timed_out' = FALSE
    /\ calls_accepted' = calls_accepted
    /\ caller' = IF caller.pc = "idle"
                 THEN [pc |-> "idle", behavior |-> NoBehavior]
                 ELSE caller

\* _run_behavior at the head of its loop: the loop ends after the last
\* action, breaks when stop_flag is set, and goes on to the action otherwise
WorkerCheck(w) ==
    /\ workers[w].pc = "check"
    /\ workers' =
          IF workers[w].i > workers[w].behavior.steps
          THEN [workers EXCEPT ![w].pc = "finally"]
          ELSE IF stop_flag
          THEN [workers EXCEPT ![w].pc = "finally", ![w].cancelled = TRUE]
          ELSE [workers EXCEPT ![w].pc = "act"]
    /\ WorkerStep("check", w)
    /\ UNCHANGED <<current_behavior, behavior_thread, stop_flag,
                   behaviors_executed, behaviors_interrupted>>
    /\ UNCHANGED <<evars, ivars, cvars>>

\* variant: the exception is logged and the loop goes on
WorkerActGoingOn(w, ok) ==
    /\ workers[w].pc = "act"
    /\ workers' =
          IF workers[w].behavior.blocking /\ ok
          THEN [workers EXCEPT ![w].pc = "hold"]
          ELSE [workers EXCEPT ![w].pc = "check", ![w].i = @ + 1]
    /\ WorkerStep(IF ok THEN "act" ELSE "raise", w)
    /\ UNCHANGED <<current_behavior, behavior_thread, stop_flag,
                   behaviors_executed, behaviors_interrupted>>
    /\ UNCHANGED <<evars, ivars, cvars>>

\* self.reachy.set_target(head=pose): it returns, or it raises and the
\* loop is left
WorkerAct(w, ok) ==
    /\ workers[w].pc = "act"
    /\ workers' =
          IF ~ok THEN [workers EXCEPT ![w].pc = "finally"]
          ELSE IF workers[w].behavior.blocking
          THEN [workers EXCEPT ![w].pc = "hold"]
          ELSE [workers EXCEPT ![w].pc = "check", ![w].i = @ + 1]
    /\ WorkerStep(IF ok THEN "act" ELSE "raise", w)
    /\ UNCHANGED <<current_behavior, behavior_thread, stop_flag,
                   behaviors_executed, behaviors_interrupted>>
    /\ UNCHANGED <<evars, ivars, cvars>>

\* time.sleep(action.duration) is over
WorkerHold(w) ==
    /\ workers[w].pc = "hold"
    /\ workers' = [workers EXCEPT ![w].pc = "check", ![w].i = @ + 1]
    /\ WorkerStep("hold", w)
    /\ UNCHANGED <<current_behavior, behavior_thread, stop_flag,
                   behaviors_executed, behaviors_interrupted>>
    /\ UNCHANGED <<evars, ivars, cvars>>

\* finally: with self.lock: if self.current_behavior == behavior: ...
\* and the thread terminates; the lock is free when no call is in progress
WorkerFinish(w) ==
    /\ workers[w].pc = "finally"
    /\ caller.pc = "idle"
    /\ IF current_behavior = workers[w].behavior
       THEN /\ current_behavior' = NoBehavior
            /\ behaviors_executed' = behaviors_executed + 1
       ELSE UNCHANGED <<current_behavior, behaviors_executed>>
    /\ workers' = [workers EXCEPT ![w] = NoThread]
    /\ WorkerStep("finish", w)
    /\ UNCHANGED <<behavior_thread, stop_flag, behaviors_interrupted>>
    /\ UNCHANGED <<evars, ivars, cvars>>

\* ------------------------------------------------------------------------
\* GreetingCoordinator
\* ------------------------------------------------------------------------
\* the threads that are inside a response: between greeting_in_progress =
\* True and the finally block that resets it
InResponse(hs) ==
    {t \in DOMAIN hs : hs[t].pc \in {"gesture", "speech", "mark", "finally"}}

\* the threads that are executing _execute_greeting
Executing(hs) == {t \in DOMAIN hs : hs[t].pc \in {"gesture", "speech", "mark"}}

BusyHandlers(hs) == {t \in DOMAIN hs : hs[t].pc /= "idle"}

\* what is recorded of a step of thread t
HandlerStep(op, t) ==
    coord_step' = [op |-> op, thread |-> t, person |-> "nobody"]

\* the same for the step that receives an event
ArrivalStep(op, t, event) ==
    coord_step' = [op |-> op, thread |-> t, person |-> event.person_name]

\* variant: without the greeted_persons test
ArriveUnchecked(t, event) ==
    /\ handlers[t].pc = "idle"
    /\ delivered < MaxGreetings
    /\ Len(pending_greetings)
          + Cardinality({u \in DOMAIN handlers :
                            handlers[u].pc = "enter"}) < MaxPending
    /\ delivered' = delivered + 1
    /\ ArrivalStep("arrived", t, event)
    /\ handlers' = [handlers EXCEPT ![t] =
                       [NoHandler EXCEPT !.pc = "enter",
                                         !.event = event]]
    /\ UNCHANGED <<greeted_persons, greeting_in_progress, pending_greetings,
                   total_greetings, latencies>>
    /\ UNCHANGED <<evars, ivars, bvars, overtaken>>

\* event_manager calls _on_person_recognized(event) on thread t: the
\* greeted_persons test; an event that passes goes on to greeting_lock
Arrive(t, event) ==
    /\ handlers[t].pc = "idle"
    /\ delivered < MaxGreetings
    /\ delivered' = delivered + 1
    /\ IF event.person_name \in greeted_persons
       THEN /\ ArrivalStep("discarded", t, event)
            /\ handlers' = handlers
       ELSE /\ Len(pending_greetings)
                  + Cardinality({u \in DOMAIN handlers :
                                    handlers[u].pc = "enter"}) < MaxPending
            /\ ArrivalStep("arrived", t, event)
            /\ handlers' = [handlers EXCEPT ![t] =
                               [NoHandler EXCEPT !.pc = "enter",
                                                 !.event = event]]
    /\ UNCHANGED <<greeted_persons, greeting_in_progress, pending_greetings,
                   total_greetings, latencies>>
    /\ UNCHANGED <<evars, ivars, bvars, overtaken>>

\* with self.greeting_lock: queue the event and return, or take the flag
Enter(t) ==
    /\ handlers[t].pc = "enter"
    /\ IF greeting_in_progress
       THEN /\ pending_greetings' = Append(pending_greetings, handlers[t].event)
            /\ handlers' = [handlers EXCEPT ![t] = NoHandler]
            /\ HandlerStep("queued", t)
            /\ UNCHANGED greeting_in_progress
       ELSE /\ greeting_in_progress' = TRUE
            /\ handlers' = [handlers EXCEPT ![t].pc = "gesture"]
            /\ HandlerStep("started", t)
            /\ UNCHANGED pending_greetings
    /\ UNCHANGED <<greeted_persons, total_greetings, latencies>>
    /\ UNCHANGED <<evars, ivars, bvars, delivered, overtaken>>

\* variant: the person is marked as greeted when the gesture is requested
RequestGestureGreeting(t, ok) ==
    /\ handlers[t].pc = "gesture"
    /\ handlers' = [handlers EXCEPT
                       ![t].pc = IF ok THEN "speech" ELSE "finally",
                       ![t].done = Append(@, "gesture"),
                       ![t].raised = ~ok]
    /\ HandlerStep("gesture", t)
    /\ greeted_persons' = greeted_persons \cup {handlers[t].event.person_name}
    /\ UNCHANGED <<greeting_in_progress, pending_greetings,
                   total_greetings, latencies>>
    /\ UNCHANGED <<evars, ivars, bvars, delivered, overtaken>>

\* _execute_greeting, step 1: behavior_manager.execute_behavior(greeting_wave)
\* returns (its value is not looked at) or raises
RequestGesture(t, ok) ==
    /\ handlers[t].pc = "gesture"
    /\ handlers' = [handlers EXCEPT
                       ![t].pc = IF ok THEN "speech" ELSE "finally",
                       ![t].done = Append(@, "gesture"),
                       ![t].raised = ~ok]
    /\ HandlerStep("gesture", t)
    /\ UNCHANGED <<greeted_persons, greeting_in_progress, pending_greetings,
                   total_greetings, latencies>>
    /\ UNCHANGED <<evars, ivars, bvars, delivered, overtaken>>

\* greeting_wave as the coordinator imports it
GreetingWave == CHOOSE b \in Behaviors : b.name = "greeting_wave"

\* _execute_greeting, step 1, with the BehaviorManager behind it: the call
\* takes self.lock and returns False (a behavior is active that it may not
\* interrupt) or starts the gesture thread and returns True; the response
\* goes on to the speech call in both cases. With the coordinator as the
\* only client of the scheduler the active behavior is a greeting_wave, so
\* a call that is not turned away finds no thread to stop.
RequestGestureOfScheduler(t) ==
    /\ handlers[t].pc = "gesture"
    /\ caller.pc = "idle"
    /\ IF Blocked(current_behavior, GreetingWave)
       THEN Reject(GreetingWave)
       ELSE /\ \E w \in DOMAIN workers : workers[w].pc = "done"
            /\ Accepted < MaxStat
            /\ ~IsAlive(workers, behavior_thread)
            /\ StartBehavior(GreetingWave, current_behavior /= NoBehavior)
            /\ sched_step' = [op |-> "started", worker |-> 0]
            /\ UNCHANGED timed_out
    /\ handlers' = [handlers EXCEPT
                       ![t].pc = "speech",
                       ![t].done = Append(@,
                           IF Blocked(current_behavior, GreetingWave)
                           THEN "gesture refused" ELSE "gesture")]
    /\ HandlerStep("gesture", t)
    /\ UNCHANGED <<greeted_persons, greeting_in_progress, pending_greetings,
                   total_greetings, latencies>>
    /\ UNCHANGED <<evars, ivars, delivered, overtaken>>

\* steps 2 and 3: time.sleep(gesture_speech_delay), then the speech call
\* (_speak_enhanced or tts_manager.speak_greeting) returns or raises
Speak(t, ok) ==
    /\ handlers[t].pc = "speech"
    /\ handlers' = [handlers EXCEPT
                       ![t].pc = IF ok THEN "mark" ELSE "finally",
                       ![t].done = Append(@, "speech"),
                       ![t].raised = ~ok]
    /\ HandlerStep("speech", t)
    /\ UNCHANGED <<greeted_persons, greeting_in_progress, pending_greetings,
                   total_greetings, latencies>>
    /\ UNCHANGED <<evars, ivars, bvars, delivered, overtaken>>

\* steps 4 and 5: greeted_persons.add, total_greetings += 1,
\* latencies.append
MarkGreeted(t) ==
    /\ handlers[t].pc = "mark"
    /\ greeted_persons' = greeted_persons \cup {handlers[t].event.person_name}
    /\ total_greetings' = total_greetings + 1
    /\ latencies' = latencies + 1
    /\ handlers' = [handlers EXCEPT ![t].pc = "finally"]
    /\ HandlerStep("marked", t)
    /\ UNCHANGED <<greeting_in_progress, pending_greetings>>
    /\ UNCHANGED <<evars, ivars, bvars, delivered, overtaken>>

\* variant: the flag is given up only by a response that has not raised
ReleaseCompleted(t) ==
    /\ handlers[t].pc = "finally"
    /\ greeting_in_progress' =
          IF handlers[t].raised THEN greeting_in_progress ELSE FALSE
    /\ handlers' = [handlers EXCEPT ![t] = [NoHandler EXCEPT !.pc = "drain"]]
    /\ HandlerStep(IF handlers[t].raised THEN "recovered" ELSE "released", t)
    /\ UNCHANGED <<greeted_persons, pending_greetings, total_greetings,
                   latencies>>
    /\ overtaken' = overtaken \ {t}
    /\ UNCHANGED <<evars, ivars, bvars, delivered>>

\* except Exception (the error is logged, "recovered") and finally: with
\* self.greeting_lock: self.greeting_in_progress = False; the thread goes
\* on to _process_pending_greetings
Release(t) ==
    /\ handlers[t].pc = "finally"
    /\ greeting_in_progress' = FALSE
    /\ handlers' = [handlers EXCEPT ![t] = [NoHandler EXCEPT !.pc = "drain"]]
    /\ HandlerStep(IF handlers[t].raised THEN "recovered" ELSE "released", t)
    /\ UNCHANGED <<greeted_persons, pending_greetings, total_greetings,
                   latencies>>
    /\ overtaken' = overtaken \ {t}
    /\ UNCHANGED <<evars, ivars, bvars, delivered>>

RECURSIVE InsertByConfidence(_, _)
\* where a stable descending sort puts e among the already sorted es:
\* behind every entry whose confidence is not lower
InsertByConfidence(es, e) ==
    IF es = <<>> THEN <<e>>
    ELSE IF Head(es).confidence >= e.confidence
    THEN <<Head(es)>> \o InsertByConfidence(Tail(es), e)
    ELSE <<e>> \o es

\* variant: lowest confidence first
RECURSIVE SortAscending(_)
SortAscending(es) ==
    IF es = <<>> THEN <<>>
    ELSE LET rest == SortAscending(Tail(es))
             lower == SelectSeq(rest, LAMBDA x : x.confidence < Head(es).confidence)
             other == SelectSeq(rest, LAMBDA x : x.confidence >= Head(es).confidence)
         IN  lower \o <<Head(es)>> \o other

RECURSIVE SortByConfidence(_)
\* pending_greetings.sort(key=lambda e: e.confidence, reverse=True)
SortByConfidence(es) ==
    IF es = <<>> THEN <<>>
    ELSE InsertByConfidence(SortByConfidence(SubSeq(es, 1, Len(es) - 1)),
                            es[Len(es)])

\* the index of the first entry whose person is not greeted yet, 0 if none
FirstNotGreeted(es, greeted) ==
    LET idx == {i \in DOMAIN es : es[i].person_name \notin greeted}
    IN  IF idx = {} THEN 0
        ELSE CHOOSE i \in idx : \A j \in idx : i <= j

\* es without its entry i
WithoutIndex(es, i) == SubSeq(es, 1, i - 1) \o SubSeq(es, i + 1, Len(es))

\* the event without the identity it has as an entry of the queue
Unheld(event) == [event EXCEPT !.held_by = {}]

\* es with thread t's loop variable at entry i (at none if i = 0)
Hold(es, i, t) ==
    [k \in DOMAIN es |->
        IF k = i THEN [es[k] EXCEPT !.held_by = @ \cup {t}] ELSE es[k]]

\* es with thread t's loop variable at none of the entries
Unhold(es, t) == [k \in DOMAIN es |-> [es[k] EXCEPT !.held_by = @ \ {t}]]

\* _process_pending_greetings, the test of line 284 and the start of
\* pending_greetings.sort: nothing queued, or the entries are taken out of
\* the list, which reads as empty to every thread until the sort is over
BeginSort(t) ==
    /\ handlers[t].pc = "drain"
    /\ IF pending_greetings = <<>>
       THEN /\ handlers' = [handlers EXCEPT ![t] = NoHandler]
            /\ HandlerStep("drained", t)
            /\ UNCHANGED pending_greetings
       ELSE /\ handlers' = [handlers EXCEPT ![t].pc = "sorting",
                                            ![t].saved = pending_greetings]
            /\ pending_greetings' = <<>>
            /\ HandlerStep("sorting", t)
    /\ UNCHANGED <<greeted_persons, greeting_in_progress, total_greetings,
                   latencies>>
    /\ UNCHANGED <<evars, ivars, bvars, delivered, overtaken>>

\* the end of pending_greetings.sort and the for loop up to its first
\* entry that is not greeted: the sorted entries are put back; what other
\* threads put into the list meanwhile is dropped and ValueError ("list
\* modified during sort") leaves _process_pending_greetings
EndSort(t) ==
    /\ handlers[t].pc = "sorting"
    /\ \E sorted \in {SortByConfidence(handlers[t].saved)} :
          /\ pending_greetings' =
                IF pending_greetings /= <<>> THEN sorted
                ELSE Hold(sorted, FirstNotGreeted(sorted, greeted_persons), t)
          /\ IF pending_greetings /= <<>>
             THEN /\ handlers' = [handlers EXCEPT ![t] = NoHandler]
                  /\ HandlerStep("escaped", t)
             ELSE \E i \in {FirstNotGreeted(sorted, greeted_persons)} :
                     IF i = 0
                     THEN /\ handlers' = [handlers EXCEPT ![t] = NoHandler]
                          /\ HandlerStep("drained", t)
                     ELSE /\ handlers' = [handlers EXCEPT ![t] =
                                             [NoHandler EXCEPT
                                                 !.pc = "remove",
                                                 !.event = Unheld(sorted[i])]]
                          /\ HandlerStep("found", t)
    /\ UNCHANGED <<greeted_persons, greeting_in_progress, total_greetings,
                   latencies>>
    /\ UNCHANGED <<evars, ivars, bvars, delivered, overtaken>>

\* the index of the entry of es that is thread t's loop variable, 0 if it
\* is not in es
IndexOf(es, t) ==
    LET idx == {i \in DOMAIN es : t \in es[i].held_by}
    IN  IF idx = {} THEN 0
        ELSE CHOOSE i \in idx : \A j \in idx : i <= j

\* self.pending_greetings.remove(event): the entry is removed, or it is no
\* longer in the list and ValueError leaves _process_pending_greetings
RemovePending(t) ==
    /\ handlers[t].pc = "remove"
    /\ \E i \in {IndexOf(pending_greetings, t)} :
          IF i = 0
          THEN /\ handlers' = [u \in DOMAIN handlers |->
                                 IF u = t THEN NoHandler
                                 ELSE [handlers[u] EXCEPT
                                          !.saved = Unhold(@, t)]]
               /\ HandlerStep("escaped", t)
               /\ UNCHANGED pending_greetings
          ELSE /\ pending_greetings' = WithoutIndex(pending_greetings, i)
               /\ handlers' = [handlers EXCEPT ![t].pc = "relock"]
               /\ HandlerStep("taken", t)
    /\ UNCHANGED <<greeted_persons, greeting_in_progress, total_greetings,
                   latencies>>
    /\ UNCHANGED <<evars, ivars, bvars, delivered, overtaken>>

\* with self.greeting_lock: self.greeting_in_progress = True, before the
\* queued event is served
Relock(t) ==
    /\ handlers[t].pc = "relock"
    /\ greeting_in_progress' = TRUE
    /\ handlers' = [handlers EXCEPT ![t].pc = "gesture"]
    /\ HandlerStep("relocked", t)
    /\ UNCHANGED <<greeted_persons, pending_greetings, total_greetings,
                   latencies>>
    /\ UNCHANGED <<evars, ivars, bvars, delivered, overtaken>>

\* variant: the counters are reset as well
ResetSessionAndStats ==
    /\ greeted_persons' = {}
    /\ pending_greetings' = <<>>
    /\ total_greetings' = 0
    /\ latencies' = 0
    /\ HandlerStep("reset", 0)
    /\ UNCHANGED <<greeting_in_progress, handlers>>
    /\ overtaken' = Executing(handlers)
    /\ UNCHANGED <<evars, ivars, bvars, delivered>>

\* coordinator.reset_session()
ResetSession ==
    /\ greeted_persons' = {}
    /\ pending_greetings' = <<>>
    /\ HandlerStep("reset", 0)
    /\ UNCHANGED <<greeting_in_progress, total_greetings, latencies,
                   handlers>>
    /\ overtaken' = Executing(handlers)
    /\ UNCHANGED <<evars, ivars, bvars, delivered>>

\* ------------------------------------------------------------------------
\* IdleManager
\* ------------------------------------------------------------------------
\* self.activation_threshold, in ticks of the clock
activation_threshold == MaxQuiet

\* create_idle_drift(): two non-blocking actions, interruptible, priority 1
IdleDrift == Behavior("idle_drift", 2, FALSE, TRUE, 1)

\* what is recorded of a step of the IdleManager
IdleStep(op) == idle_step' = [op |-> op]

\* idle_manager.start(), called when the manager is not running and the
\* thread of an earlier start has ended
StartIdle ==
    /\ ~idle_running
    /\ monitor \in {"none", "stopped"}
    /\ idle_running' = TRUE
    /\ monitor' = "loop"
    /\ IdleStep("start")
    /\ UNCHANGED <<idle_active, last_face_time, last_notice>>
    /\ UNCHANGED <<evars, bvars, cvars>>

\* idle_manager.stop(): running = False, _stop_event.set(),
\* _deactivate_idle(), and the bounded join
StopIdle ==
    /\ idle_running
    /\ idle_running' = FALSE
    /\ idle_active' = FALSE
    /\ last_face_time' = IF idle_active THEN None ELSE last_face_time
    /\ IdleStep("stop")
    /\ UNCHANGED <<monitor, last_notice>>
    /\ UNCHANGED <<evars, bvars, cvars>>

\* notify_face_detected(): last_face_time = now, and _deactivate_idle()
\* (active = False, last_face_time = None) if idle was active
NotifyFaceDetected ==
    /\ idle_active' = FALSE
    /\ last_face_time' = IF idle_active THEN None ELSE 0
    /\ last_notice' = "face"
    /\ IdleStep("face")
    /\ UNCHANGED <<idle_running, monitor>>
    /\ UNCHANGED <<evars, bvars, cvars>>

\* notify_no_faces(): the timer is started unless it is running
NotifyNoFaces ==
    /\ last_face_time' = IF last_face_time = None THEN 0 ELSE last_face_time
    /\ last_notice' = "no_faces"
    /\ IdleStep("no_faces")
    /\ UNCHANGED <<idle_active, idle_running, monitor>>
    /\ UNCHANGED <<evars, bvars, cvars>>

\* time passes: datetime.now() - self.last_face_time grows
Tick ==
    /\ last_face_time /= None
    /\ last_face_time < activation_threshold
    /\ last_face_time' = last_face_time + 1
    /\ IdleStep("tick")
    /\ UNCHANGED <<idle_active, idle_running, monitor, last_notice>>
    /\ UNCHANGED <<evars, bvars, cvars>>

\* self.behavior_manager.execute_behavior(create_idle_drift()): with the
\* lowest priority the call interrupts nothing; it is turned away while a
\* behavior is active and starts the drift otherwise
SubmitIdleDrift ==
    /\ caller.pc = "idle"
    /\ IF Blocked(current_behavior, IdleDrift)
       THEN Reject(IdleDrift)
       ELSE /\ \E w \in DOMAIN workers : workers[w].pc = "done"
            /\ Accepted < MaxStat
            /\ ~IsAlive(workers, behavior_thread)
            /\ StartBehavior(IdleDrift, current_behavior /= NoBehavior)
            /\ sched_step' = [op |-> "started", worker |-> 0]
            /\ UNCHANGED timed_out

\* _monitor_loop at the head of its loop: it ends when the manager was
\* stopped; with idle not active it runs _check_activation, which under
\* self._lock activates idle (and submits the first drift) once the
\* threshold has passed; with idle active it enters _execute_idle_behavior
\* and passes the test of self.active there
MonitorLoop ==
    /\ monitor = "loop"
    /\ IF ~idle_running
       THEN /\ monitor' = "stopped"
            /\ IdleStep("exit")
            /\ UNCHANGED <<idle_active, bvars>>
       ELSE IF idle_active
       THEN /\ monitor' = "execute"
            /\ IdleStep("enter")
            /\ UNCHANGED <<idle_active, bvars>>
       ELSE IF last_face_time /= None
               /\ last_face_time >= activation_threshold
       THEN /\ idle_active' = TRUE
            /\ SubmitIdleDrift
            /\ monitor' = "wait"
            /\ IdleStep("activated")
       ELSE /\ monitor' = "wait"
            /\ IdleStep("checked")
            /\ UNCHANGED <<idle_active, bvars>>
    /\ UNCHANGED <<last_face_time, idle_running, last_notice>>
    /\ UNCHANGED <<evars, cvars>>

\* _execute_idle_behavior after its test of self.active: the drift is
\* created and handed to the scheduler
MonitorExecute ==
    /\ monitor = "execute"
    /\ SubmitIdleDrift
    /\ monitor' = "wait"
    /\ IdleStep("submitted")
    /\ UNCHANGED <<idle_active, last_face_time, idle_running, last_notice>>
    /\ UNCHANGED <<evars, cvars>>

\* self._stop_event.wait(timeout=self.idle_interval) returns
MonitorWait ==
    /\ monitor = "wait"
    /\ monitor' = "loop"
    /\ IdleStep("woke")
    /\ UNCHANGED <<idle_active, last_face_time, idle_running, last_notice>>
    /\ UNCHANGED <<evars, bvars, cvars>>

\* ------------------------------------------------------------------------
\* Specifications
\* ------------------------------------------------------------------------
\* debouncing: a manager with no subscriber and any thresholds, driven frame
\* by frame by a caller that passes the frame number
InitDebounce ==
    /\ Init
    /\ max_history = 1

Next ==
    \/ \E results \in Batches : Submit(results, 1, {"runs"})
    \/ Reset

Spec == InitDebounce /\ [][Next]_vars

\* frame numbering: the same manager with the frame number passed, left to
\* the internal counter, or both in turn
InitFrames ==
    /\ Init
    /\ debounce_frames = MaxDebounce
    /\ departed_frames = 1

NextFrames ==
    \/ \E results \in Batches, frame_arg \in FrameArgs :
          Submit(results, frame_arg, {"args"})
    \/ Reset

SpecFrames == InitFrames /\ [][NextFrames]_vars

\* the tracker with subscribers wired before the first frame, as the
\* GreetingCoordinator does in its constructor, and fed batches that name
\* each identity at most once (a batch that repeats a name changes when an
\* announce is emitted, which Spec and SpecPair cover, not how it is
\* dispatched)
DistinctBatches ==
    {b \in Batches : \A i, j \in DOMAIN b : b[i].name = b[j].name => i = j}

InitSubscribers ==
    /\ Init
    /\ debounce_frames = 2
    /\ departed_frames = 1
    /\ max_history = 1

NextSubscribers ==
    \/ /\ last_op \in {"init", "add_callback"}
       /\ \E event_type \in EventType, fn \in CallbackFns :
             AddCallback(event_type, fn)
    \/ \E results \in DistinctBatches : Submit(results, 1, {})

SpecSubscribers == InitSubscribers /\ [][NextSubscribers]_vars

\* the registry in use: subscribers are added and removed between frames
\* and the manager is reset now and then
InitRegistry ==
    /\ Init
    /\ debounce_frames = 2
    /\ departed_frames = 1
    /\ max_history = 1

NextRegistry ==
    \/ \E event_type \in EventType : AddCallback(event_type, "returns")
    \/ \E callback_id \in 0..MaxCallbacks : RemoveCallback(callback_id)
    \/ \E results \in DistinctBatches : Submit(results, 1, {})
    \/ Reset

SpecRegistry == InitRegistry /\ [][NextRegistry]_vars

\* the history: a manager of any history length, read between frames
RecentCounts == {None} \cup (0..(MaxHistory + 1))

InitHistory ==
    /\ Init
    /\ debounce_frames = 2
    /\ departed_frames = 1

NextHistory ==
    \/ \E results \in DistinctBatches : Submit(results, 1, {"emitted"})
    \/ \E count \in RecentCounts : GetRecentEvents(count)

SpecHistory == InitHistory /\ [][NextHistory]_vars

\* the scheduler: one thread after another calls execute_behavior with
\* the predefined behaviors while the worker threads run
InitScheduler ==
    /\ Init
    /\ debounce_frames = 1
    /\ departed_frames = 1
    /\ max_history = 1

NextScheduler ==
    \/ \E behavior \in Behaviors : ExecuteBehavior(behavior)
    \/ FinishExecuteBehavior
    \/ \E w \in 1..MaxWorkers : WorkerCheck(w)
    \/ \E w \in 1..MaxWorkers, ok \in BOOLEAN : WorkerAct(w, ok)
    \/ \E w \in 1..MaxWorkers : WorkerHold(w)
    \/ \E w \in 1..MaxWorkers : WorkerFinish(w)

SpecScheduler == InitScheduler /\ [][NextScheduler]_vars

\* the same, with the timer of join(timeout=2.0) running
SpecSchedulerTimed ==
    InitScheduler /\ [][NextScheduler]_vars /\ WF_vars(FinishExecuteBehavior)

\* the scheduler driven by the two responses to recognition events only
\* (greeting_wave for a recognized person, curious_tilt for an unknown one),
\* where, in addition, a worker that stands before its finally block gets
\* self.lock once the lock is left free
ResponseBehaviors ==
    {b \in Behaviors : b.name \in {"curious_tilt", "greeting_wave"}}

NextResponses ==
    \/ \E behavior \in ResponseBehaviors : ExecuteBehavior(behavior)
    \/ FinishExecuteBehavior
    \/ \E w \in 1..MaxWorkers : WorkerCheck(w)
    \/ \E w \in 1..MaxWorkers, ok \in BOOLEAN : WorkerAct(w, ok)
    \/ \E w \in 1..MaxWorkers : WorkerHold(w)
    \/ \E w \in 1..MaxWorkers : WorkerFinish(w)

SpecSchedulerFair ==
    /\ InitScheduler
    /\ [][NextResponses]_vars
    /\ WF_vars(FinishExecuteBehavior)
    /\ \A w \in 1..MaxWorkers : WF_vars(WorkerFinish(w))

\* the coordinator with events delivered on concurrent threads, the gesture
\* and speech calls free to raise, and a session reset now and then
InitCoordinator ==
    /\ Init
    /\ debounce_frames = 1
    /\ departed_frames = 1
    /\ max_history = 1

NextCoordinator ==
    \/ \E t \in 1..MaxSessionThreads, event \in RecognizedEvents :
          Arrive(t, event)
    \/ \E t \in 1..MaxSessionThreads : Enter(t)
    \/ \E t \in 1..MaxSessionThreads, ok \in BOOLEAN : RequestGesture(t, ok)
    \/ \E t \in 1..MaxSessionThreads, ok \in BOOLEAN : Speak(t, ok)
    \/ \E t \in 1..MaxSessionThreads : MarkGreeted(t)
    \/ \E t \in 1..MaxSessionThreads : Release(t)
    \/ \E t \in 1..MaxSessionThreads : BeginSort(t)
    \/ \E t \in 1..MaxSessionThreads : EndSort(t)
    \/ \E t \in 1..MaxSessionThreads : RemovePending(t)
    \/ \E t \in 1..MaxSessionThreads : Relock(t)
    \/ ResetSession

SpecCoordinator == InitCoordinator /\ [][NextCoordinator]_vars

\* the coordinator in a short session with two persons, with failing
\* collaborators and session resets
SessionEvents == {e \in RecognizedEvents : e.person_name \in {"Alice", "Bob"}}

NextSession ==
    \/ \E t \in 1..MaxSessionThreads, event \in SessionEvents :
          delivered < MaxSessionGreetings /\ Arrive(t, event)
    \/ \E t \in 1..MaxSessionThreads : Enter(t)
    \/ \E t \in 1..MaxSessionThreads, ok \in BOOLEAN : RequestGesture(t, ok)
    \/ \E t \in 1..MaxSessionThreads, ok \in BOOLEAN : Speak(t, ok)
    \/ \E t \in 1..MaxSessionThreads : MarkGreeted(t)
    \/ \E t \in 1..MaxSessionThreads : Release(t)
    \/ \E t \in 1..MaxSessionThreads : BeginSort(t)
    \/ \E t \in 1..MaxSessionThreads : EndSort(t)
    \/ \E t \in 1..MaxSessionThreads : RemovePending(t)
    \/ \E t \in 1..MaxSessionThreads : Relock(t)
    \/ ResetSession

SpecSession == InitCoordinator /\ [][NextSession]_vars

\* the coordinator and the scheduler it hands its gestures to: two persons,
\* a speech backend that does not fail, one session, and the gesture
\* threads running beside the responses
NextGreeting ==
    \/ \E t \in 1..MaxSessionThreads, event \in SessionEvents :
          delivered < MaxSessionGreetings /\ Arrive(t, event)
    \/ \E t \in 1..MaxSessionThreads : Enter(t)
    \/ \E t \in 1..MaxSessionThreads : RequestGestureOfScheduler(t)
    \/ \E t \in 1..MaxSessionThreads : Speak(t, TRUE)
    \/ \E t \in 1..MaxSessionThreads : MarkGreeted(t)
    \/ \E t \in 1..MaxSessionThreads : Release(t)
    \/ \E t \in 1..MaxSessionThreads : BeginSort(t)
    \/ \E t \in 1..MaxSessionThreads : EndSort(t)
    \/ \E t \in 1..MaxSessionThreads : RemovePending(t)
    \/ \E t \in 1..MaxSessionThreads : Relock(t)
    \/ \E w \in 1..MaxWorkers : WorkerCheck(w)
    \/ \E w \in 1..MaxWorkers, ok \in BOOLEAN : WorkerAct(w, ok)
    \/ \E w \in 1..MaxWorkers : WorkerHold(w)
    \/ \E w \in 1..MaxWorkers : WorkerFinish(w)

SpecGreeting == InitCoordinator /\ [][NextGreeting]_vars

\* the IdleManager with its monitoring thread, the notifications of the
\* tracker, the clock, and the scheduler that runs the drifts
InitIdle ==
    /\ Init
    /\ debounce_frames = 1
    /\ departed_frames = 1
    /\ max_history = 1

NextIdle ==
    \/ StartIdle
    \/ StopIdle
    \/ NotifyFaceDetected
    \/ NotifyNoFaces
    \/ Tick
    \/ MonitorLoop
    \/ MonitorExecute
    \/ MonitorWait
    \/ \E w \in 1..MaxWorkers : WorkerCheck(w)
    \/ \E w \in 1..MaxWorkers, ok \in BOOLEAN : WorkerAct(w, ok)
    \/ \E w \in 1..MaxWorkers : WorkerFinish(w)

SpecIdle == InitIdle /\ [][NextIdle]_vars

\* the coordinator with collaborators that do not fail, in one session,
\* with events delivered on up to MaxThreads threads at once
NextQueue ==
    \/ \E t \in 1..MaxThreads, event \in SessionEvents : Arrive(t, event)
    \/ \E t \in 1..MaxThreads : Enter(t)
    \/ \E t \in 1..MaxThreads : RequestGesture(t, TRUE)
    \/ \E t \in 1..MaxThreads : Speak(t, TRUE)
    \/ \E t \in 1..MaxThreads : MarkGreeted(t)
    \/ \E t \in 1..MaxThreads : Release(t)
    \/ \E t \in 1..MaxThreads : BeginSort(t)
    \/ \E t \in 1..MaxThreads : EndSort(t)
    \/ \E t \in 1..MaxThreads : RemovePending(t)
    \/ \E t \in 1..MaxThreads : Relock(t)

SpecQueue == InitCoordinator /\ [][NextQueue]_vars

\* what thread t does next once it is inside _on_person_recognized, when
\* the gesture request and the speech call return
Proceed(t) ==
    \/ Enter(t)
    \/ RequestGesture(t, TRUE)
    \/ Speak(t, TRUE)
    \/ MarkGreeted(t)
    \/ Release(t)
    \/ BeginSort(t)
    \/ EndSort(t)
    \/ RemovePending(t)
    \/ Relock(t)

\* the same under fair scheduling: a thread that is inside
\* _on_person_recognized goes on running
SpecQueueFair ==
    /\ InitCoordinator
    /\ [][NextQueue]_vars
    /\ \A t \in 1..MaxThreads : WF_vars(Proceed(t))

\* two managers with the same thresholds: the first is fed the batches, the
\* second only what they say about identity Focus (one observation when it
\* is observed, nothing otherwise).  Any two call sequences that agree on
\* whether Focus is observed have this same projection.
Focus == "Alice"

FocusOnly(results) ==
    IF Observed(Focus, results)
    THEN <<results[CHOOSE i \in DOMAIN results :
                      /\ results[i].name = Focus
                      /\ \A j \in 1..(i - 1) : results[j].name /= Focus]>>
    ELSE <<>>

SubmitPair(results, frame_arg) ==
    \E t \in {ProcessRecognitionResults(twin, Config, FocusOnly(results),
                                        frame_arg)} :
        /\ SubmitEffects(results, frame_arg)
        /\ CountersWithin(t.current_state)
        /\ twin' = [current_state |-> t.current_state,
                    event_history |-> t.event_history,
                    frame_count |-> t.frame_count,
                    events |-> t.events]
        /\ UNCHANGED <<last_args, presence, prior_kind, prior_emitted,
                       emitted>>

NextPair ==
    \E results \in Batches, frame_arg \in 1..MaxFrame :
        SubmitPair(results, frame_arg)

InitPair ==
    /\ Init
    /\ debounce_frames = MaxDebounce
    /\ departed_frames = MaxDeparted
    /\ max_history = MaxHistory

SpecPair == InitPair /\ [][NextPair]_vars

\* ------------------------------------------------------------------------
\* Properties
\* ------------------------------------------------------------------------
\* C1: within one continuous presence run of an identity (consecutive calls
\* that all observe it, with no reset) at most one announce event
\* (PERSON_RECOGNIZED / PERSON_UNKNOWN) is emitted for it.
C1_AtMostOneAnnouncePerRun ==
    \A n \in Names : presence[n].announces <= 1

\* an identity announced earlier in its run is observed again, still the
\* same run, and nothing is emitted for it
C1_Witness ==
    \E n \in Names :
        /\ last_op = "submit"
        /\ presence[n].announces = 1
        /\ presence[n].run > debounce_frames
        /\ CountAnnounces(n, events) = 0

\* C2: an identity that was untracked when its run began is announced in
\* the call that makes the run debounce_frames long, and in no earlier call
\* of the run, for every accepted threshold including 1.
C2_AnnounceOnDthCall ==
    last_op = "submit" =>
        \A n \in Names :
            presence[n].fresh =>
                /\ presence[n].run = debounce_frames
                      => CountAnnounces(n, events) = 1
                /\ (presence[n].run > 0 /\ presence[n].run < debounce_frames)
                      => CountAnnounces(n, events) = 0

\* C3: every tracked PersonState has consecutive_frames > 0 exactly when
\* departed_frames = 0.
C3_CountersExclusive ==
    \A i \in DOMAIN current_state :
        (current_state[i].consecutive_frames > 0)
            <=> (current_state[i].departed_frames = 0)

\* one identity is tracked as present and another as absent
C3_Witness ==
    /\ last_op = "submit"
    /\ \E i \in DOMAIN current_state :
          /\ current_state[i].consecutive_frames > 1
          /\ current_state[i].departed_frames = 0
    /\ \E i \in DOMAIN current_state :
          /\ current_state[i].consecutive_frames = 0
          /\ current_state[i].departed_frames > 1

Announced(cs, n) ==
    LET i == IndexOfName(cs, n) IN i > 0 /\ cs[i].event_triggered

\* C4: for an announced identity, the call that makes its absence
\* departed_frames long emits exactly one PERSON_DEPARTED for it and removes
\* its state, the earlier absent calls emit none, and after a departure a
\* new announce comes only once the identity has been observed in
\* debounce_frames further consecutive calls.
C4_DepartOnTthAbsentCall ==
    [][last_op' = "submit" =>
          \A n \in Names :
              /\ (Announced(current_state, n)
                    /\ presence'[n].gap = departed_frames)
                 => /\ CountDeparted(n, events') = 1
                    /\ n \notin TrackedNames(current_state')
              /\ (Announced(current_state, n)
                    /\ presence'[n].gap < departed_frames)
                 => CountDeparted(n, events') = 0
              /\ (prior_kind'[n] = PERSON_DEPARTED
                    /\ CountAnnounces(n, events') > 0)
                 => presence'[n].run >= debounce_frames]_vars

IsAnnounceKind(k) == k \in {PERSON_RECOGNIZED, PERSON_UNKNOWN}

\* kind b may directly follow kind a in the event stream of one identity
MayFollow(a, b) ==
    IF IsAnnounceKind(b) THEN a \in {"none", PERSON_DEPARTED}
    ELSE IsAnnounceKind(a)

Alternates(kinds) ==
    \A k \in 1..(Len(kinds) - 1) : MayFollow(kinds[k], kinds[k + 1])

\* C5: without reset, the events of one identity alternate announce,
\* PERSON_DEPARTED, announce, ... starting with an announce.
C5_AnnounceDepartAlternate ==
    \A n \in Names : Alternates(<<prior_kind[n]>> \o KindsFor(n, events))

\* an identity that departed earlier is announced again
C5_Witness ==
    \E n \in Names :
        /\ prior_kind[n] = PERSON_DEPARTED
        /\ CountAnnounces(n, events) = 1

\* C6: NO_FACES is emitted only by a call with no observation that leaves
\* no tracked identity, and never directly after another NO_FACES, whether
\* the frame number is passed or taken from the internal counter.
C6_NoFacesEdgeTriggered ==
    last_op = "submit" =>
        LET kinds == <<prior_emitted>> \o AllKinds(events)
        IN  /\ \A k \in 1..(Len(kinds) - 1) :
                  ~(kinds[k] = NO_FACES /\ kinds[k + 1] = NO_FACES)
            /\ (\E i \in DOMAIN events : events[i].event_type = NO_FACES)
                  => (last_args.results = <<>> /\ current_state = <<>>)

Counters(cs) ==
    [i \in DOMAIN cs |-> <<cs[i].name, cs[i].consecutive_frames,
                           cs[i].departed_frames>>]

\* C7: a second call with the same frame_number and the same results as the
\* call before it changes no counter and emits nothing.
C7_SameFrameIdempotent ==
    [][(/\ last_op = "submit"
        /\ last_op' = "submit"
        /\ last_args.frame_number /= None
        /\ last_args' = last_args)
       => (/\ Counters(current_state') = Counters(current_state)
           /\ events' = <<>>)]_vars

\* C8: two call sequences that agree, call by call, on whether Focus is
\* observed emit the announce and PERSON_DEPARTED events of Focus in the
\* same calls, whatever else the batches hold.
C8_IndependentDebounce ==
    KindsFor(Focus, events) = KindsFor(Focus, twin.events)

RegisteredKind(callback_id) ==
    {t \in EventType :
        \E j \in DOMAIN callbacks[t] : callbacks[t][j].callback_id = callback_id}

\* C9: the announce of "unknown" is a PERSON_UNKNOWN, the announce of any
\* other identity a PERSON_RECOGNIZED, and a callback registered for
\* PERSON_RECOGNIZED only is invoked for PERSON_RECOGNIZED events of
\* identities other than the sentinel and for nothing else.
C9_SentinelKind ==
    /\ \A i \in DOMAIN events :
          /\ events[i].person_name = "unknown"
                => events[i].event_type \in {PERSON_UNKNOWN, PERSON_DEPARTED}
          /\ events[i].person_name \in Names \ {"unknown"}
                => events[i].event_type \in {PERSON_RECOGNIZED, PERSON_DEPARTED}
    /\ last_op = "submit" =>
          \A k \in DOMAIN callback_log :
              RegisteredKind(callback_log[k].callback_id) = {PERSON_RECOGNIZED}
                 => /\ callback_log[k].event.event_type = PERSON_RECOGNIZED
                    /\ callback_log[k].event.person_name /= "unknown"

\* one call announces both the sentinel and a known identity, and a
\* PERSON_RECOGNIZED subscriber is invoked once, for the known identity
C9_Witness ==
    /\ last_op = "submit"
    /\ \E i \in DOMAIN events : events[i].event_type = PERSON_UNKNOWN
    /\ \E i \in DOMAIN events : events[i].event_type = PERSON_RECOGNIZED
    /\ \E j \in DOMAIN callbacks[PERSON_RECOGNIZED] :
          Cardinality({k \in DOMAIN callback_log :
              callback_log[k].callback_id
                  = callbacks[PERSON_RECOGNIZED][j].callback_id}) = 1

Tail_(seq, k) == SubSeq(seq, Len(seq) - k + 1, Len(seq))

\* C10: when a callback raises, every callback registered for the kind of
\* each emitted event is still invoked exactly once for it, the events are
\* returned and recorded in the history, and the manager is left in the
\* state it would have with callbacks that do not raise.
C10_CallbackFaultIsolated ==
    last_op = "submit" =>
        /\ ~call_raised
        /\ \A i \in DOMAIN events :
              \A j \in DOMAIN callbacks[events[i].event_type] :
                  Cardinality({k \in DOMAIN callback_log :
                      /\ callback_log[k].callback_id =
                            callbacks[events[i].event_type][j].callback_id
                      /\ callback_log[k].event = events[i]}) = 1
        /\ LET k == Min(Len(events), max_history)
           IN  Tail_(event_history, Min(k, Len(event_history)))
                  = Tail_(events, k)
        /\ current_state = quiet_run.current_state
        /\ event_history = quiet_run.event_history
        /\ frame_count = quiet_run.frame_count
        /\ events = quiet_run.events

\* a callback raised and a callback registered after it was invoked for the
\* same event
C10_Witness ==
    \E a \in DOMAIN callback_log, b \in DOMAIN callback_log :
        /\ a < b
        /\ callback_log[a].raised
        /\ callback_log[b].event = callback_log[a].event
        /\ callback_log[b].callback_id /= callback_log[a].callback_id

\* C11: add_callback returns an id no earlier add_callback returned and
\* registers it for the given kind; remove_callback returns True exactly
\* when the id is registered, then takes that id and no other out of the
\* registry, and otherwise changes no registration; a submit invokes, for
\* each event, exactly the callbacks registered for its kind, once each,
\* and never a callback that was removed.
C11_CallbackRegistry ==
    [][/\ last_op' = "add_callback" =>
             /\ registry_call'.ret \notin issued
             /\ KindsOf(callbacks', registry_call'.ret) = {registry_call'.arg}
             /\ \A id \in RegisteredIds(callbacks) :
                    KindsOf(callbacks', id) = KindsOf(callbacks, id)
       /\ last_op' = "remove_callback" =>
             /\ registry_call'.ret
                    = (registry_call'.arg \in RegisteredIds(callbacks))
             /\ ~registry_call'.ret => callbacks' = callbacks
             /\ RegisteredIds(callbacks')
                    = RegisteredIds(callbacks) \ {registry_call'.arg}
             /\ \A id \in RegisteredIds(callbacks') :
                    KindsOf(callbacks', id) = KindsOf(callbacks, id)
       /\ last_op' = "submit" =>
             /\ \A k \in DOMAIN callback_log' :
                    /\ callback_log'[k].callback_id
                           \notin removed
                    /\ KindsOf(callbacks, callback_log'[k].callback_id)
                           = {callback_log'[k].event.event_type}
             /\ \A i \in DOMAIN events' :
                    \A j \in DOMAIN callbacks[events'[i].event_type] :
                        Cardinality({k \in DOMAIN callback_log' :
                            /\ callback_log'[k].callback_id =
                                  callbacks[events'[i].event_type][j].callback_id
                            /\ callback_log'[k].event = events'[i]}) = 1]_vars

\* after a callback was removed, one call emits an event that is delivered
\* to the callback still registered and an event of a kind that no
\* callback is registered for any more
C11_Witness ==
    /\ last_op = "submit"
    /\ removed /= {}
    /\ \E i \in DOMAIN events :
          \E k \in DOMAIN callback_log : callback_log[k].event = events[i]
    /\ \E i \in DOMAIN events : callbacks[events[i].event_type] = <<>>

\* C12: the history never holds more than max_history events and is the
\* newest max_history emitted events, oldest first; get_recent_events()
\* returns the whole history newest first and get_recent_events(n) its n
\* newest events (all of them when it holds fewer than n).
C12_HistoryIsNewestEmitted ==
    /\ Len(event_history) <= max_history
    /\ event_history = LastN(emitted, max_history)
    /\ last_op = "get_recent_events" =>
          LET n == IF registry_call.arg = None THEN Len(event_history)
                   ELSE Min(registry_call.arg, Len(event_history))
          IN  /\ Len(registry_call.ret) = n
              /\ \A k \in 1..n :
                    registry_call.ret[k] = emitted[Len(emitted) - k + 1]

\* an event has been pushed out of a history of two different events, and
\* get_recent_events(1) returns the newer of the two
C12_Witness ==
    /\ last_op = "get_recent_events"
    /\ registry_call.arg = 1
    /\ Len(emitted) > max_history
    /\ Len(event_history) = 2
    /\ event_history[1] /= event_history[2]
    /\ registry_call.ret = <<event_history[2]>>

\* a manager as the constructor leaves it
Fresh == [current_state |-> <<>>, event_history |-> <<>>, frame_count |-> 0]

\* C13: reset() leaves no tracked identity, an empty history and
\* frame_count 0 and changes neither the registered callbacks nor the next
\* callback id; the call that follows a reset tracks, emits and records
\* what the same call does on a newly constructed manager, and emits
\* NO_FACES when its batch is empty.
C13_ResetRestartsTracking ==
    [][/\ last_op' = "reset" =>
             /\ current_state' = <<>>
             /\ event_history' = <<>>
             /\ frame_count' = 0
             /\ callbacks' = callbacks
             /\ next_callback_id' = next_callback_id
       /\ (last_op = "reset" /\ last_op' = "submit") =>
             /\ \E results \in DistinctBatches :
                    LET f == ProcessRecognitionResults(Fresh, Config, results, 1)
                    IN  /\ current_state' = f.current_state
                        /\ event_history' = f.event_history
                        /\ events' = f.events
             /\ current_state' = <<>> =>
                    \E i \in DOMAIN events' : events'[i].event_type = NO_FACES
             /\ \A i \in DOMAIN current_state' :
                    /\ current_state'[i].consecutive_frames = 1
                    /\ ~current_state'[i].event_triggered]_vars

\* a reset has just discarded tracked identities and history of a manager
\* that has a callback registered
C13_Witness ==
    /\ last_op = "reset"
    /\ cleared >= 2
    /\ RegisteredIds(callbacks) /= {}

\* the steps of execute_behavior
CallSteps == {"rejected", "stopping", "started", "joined"}

\* C14: while the active behavior is non-interruptible every
\* execute_behavior call returns False and leaves the cancel flag and
\* current_behavior alone; the flag stays clear, the worker of the active
\* behavior never breaks out of its loop on the flag, and only that worker
\* clears the slot.
C14_NonInterruptibleRunsToEnd ==
    [][(current_behavior /= NoBehavior /\ ~current_behavior.interruptible) =>
          /\ sched_step'.op \in CallSteps =>
                /\ sched_step'.op = "rejected"
                /\ returned' = "False"
                /\ stop_flag' = stop_flag
                /\ current_behavior' = current_behavior
          /\ ~stop_flag /\ ~stop_flag'
          /\ workers[behavior_thread].behavior = current_behavior
          /\ ~workers'[behavior_thread].cancelled
          /\ (sched_step' = [op |-> "check", worker |-> behavior_thread]
                /\ workers[behavior_thread].i <= current_behavior.steps)
             => workers'[behavior_thread].pc = "act"
          /\ current_behavior' /= current_behavior =>
                /\ sched_step' = [op |-> "finish", worker |-> behavior_thread]
                /\ current_behavior' = NoBehavior]_vars

\* a call with a higher priority was rejected while a non-interruptible
\* behavior was past its first step
C14_Witness ==
    /\ sched_step.op = "rejected"
    /\ current_behavior /= NoBehavior
    /\ ~current_behavior.interruptible
    /\ caller.behavior.priority > current_behavior.priority
    /\ workers[behavior_thread].i > 1

\* the rule of the claim: nothing in the slot, or an interruptible
\* behavior of strictly lower priority
MayStart(active, behavior) ==
    \/ active = NoBehavior
    \/ (active.interruptible /\ behavior.priority > active.priority)

\* C15: execute_behavior(b) returns True exactly when current_behavior is
\* None, or is interruptible with a priority strictly below b.priority;
\* an equal or lower priority is rejected and a higher one accepted.
C15_StrictPriorityRule ==
    [][/\ sched_step'.op = "rejected" =>
             /\ returned' = "False"
             /\ ~MayStart(current_behavior, caller'.behavior)
       /\ sched_step'.op = "started" =>
             /\ returned' = "True"
             /\ MayStart(current_behavior, caller'.behavior)
       /\ sched_step'.op = "stopping" =>
             MayStart(current_behavior, caller'.behavior)
       /\ sched_step'.op = "joined" =>
             /\ returned' = "True"
             /\ caller'.behavior = caller.behavior
             /\ MayStart(current_behavior, caller.behavior)]_vars

\* a call with the priority of the active interruptible behavior has just
\* been rejected
C15_Witness ==
    /\ sched_step.op = "rejected"
    /\ returned = "False"
    /\ current_behavior.interruptible
    /\ caller.behavior.priority = current_behavior.priority

\* C16: a call that returns False leaves current_behavior, the worker
\* thread, the stop flag, both counters and every worker's position as
\* they were.
C16_RejectedCallChangesNothing ==
    [][sched_step'.op = "rejected" =>
          /\ returned' = "False"
          /\ UNCHANGED <<current_behavior, behavior_thread, stop_flag,
                         behaviors_executed, behaviors_interrupted,
                         workers>>]_vars

\* a call has just been rejected while the worker of the active behavior
\* stands between two steps with the stop flag clear
C16_Witness ==
    /\ sched_step.op = "rejected"
    /\ returned = "False"
    /\ IsAlive(workers, behavior_thread)
    /\ workers[behavior_thread].behavior = current_behavior
    /\ workers[behavior_thread].pc = "hold"
    /\ ~stop_flag

\* C17: once the worker of the preempting behavior has been started, the
\* worker of the preempted behavior issues no actuator command, under every
\* interleaving of calls, worker progress and join time-outs.
C17_PreemptedWorkerIssuesNoCommand ==
    [][\A w \in DOMAIN workers :
          (/\ workers[w].preempted
           /\ workers[w].pc = "act"
           /\ sched_step'.op = "act"
           /\ sched_step'.worker = w)
          => workers'[w].pc \notin {"hold", "check"}]_vars

\* C18: the worker of a preempted behavior that comes to the head of its
\* loop finds stop_flag set and leaves the loop, also after the join timed
\* out and the new behavior was started.
C18_PreemptedWorkerObservesCancellation ==
    [][\A w \in DOMAIN workers :
          (/\ workers[w].preempted
           /\ workers[w].pc = "check"
           /\ sched_step'.op = "check"
           /\ sched_step'.worker = w)
          => /\ workers'[w].pc = "finally"
             /\ (workers[w].i <= workers[w].behavior.steps
                    => workers'[w].cancelled)]_vars

\* C19: no step of execute_behavior moves a worker through a pose command
\* or a hold, the thread it starts stands before its first step when the
\* call returns, and a call made with no behavior active returns True with
\* is_executing() true.
C19_FireAndForget ==
    [][sched_step'.op \in CallSteps =>
          /\ \A w \in DOMAIN workers :
                IsAlive(workers, w) =>
                   /\ workers'[w].pc = workers[w].pc
                   /\ workers'[w].i = workers[w].i
          /\ sched_step'.op \in {"started", "joined"} =>
                /\ ~IsAlive(workers, behavior_thread')
                /\ workers'[behavior_thread'].behavior = caller'.behavior
                /\ workers'[behavior_thread'].pc = "check"
                /\ workers'[behavior_thread'].i = 1
          /\ (sched_step'.op = "started" /\ current_behavior = NoBehavior) =>
                /\ returned' = "True"
                /\ current_behavior' = caller'.behavior
                /\ current_behavior' /= NoBehavior]_vars

\* a call made with no behavior active has just returned True; the only
\* live thread is the new one and it has run no step
C19_Witness ==
    /\ sched_step.op = "started"
    /\ returned = "True"
    /\ current_behavior = caller.behavior
    /\ AliveWorkers(workers) = {behavior_thread}
    /\ workers[behavior_thread].pc = "check"
    /\ workers[behavior_thread].i = 1
    /\ behaviors_executed > 0

\* C20: every execute_behavior call returns; a call that waits in
\* stop_current for the cancelled worker goes on to start the new behavior
\* whether or not that worker ever moves again.
C20_CallEventuallyReturns ==
    (caller.pc = "joining") ~> (caller.pc = "idle" /\ returned = "True")

\* the join has timed out on a worker that had not left its step, and the
\* call has returned with the new behavior started
C20_Witness ==
    /\ sched_step.op = "joined"
    /\ timed_out
    /\ caller.pc = "idle"
    /\ returned = "True"
    /\ \E w \in DOMAIN workers :
          /\ workers[w].preempted
          /\ workers[w].pc \in {"act", "hold"}

\* C21: from its acceptance until its own worker has run the finally
\* block, a behavior that was not preempted occupies current_behavior
\* (is_executing() is True), and the slot is cleared, with
\* behaviors_executed going up by exactly one, by that worker only.
C21_ActiveUntilOwnWorkerEnds ==
    \A w \in DOMAIN workers :
        (IsAlive(workers, w) /\ ~workers[w].preempted)
        => current_behavior = workers[w].behavior

\* the worker left its loop through the except branch of set_target
Failed(w) ==
    /\ workers[w].pc = "finally"
    /\ ~workers[w].cancelled
    /\ workers[w].i <= workers[w].behavior.steps

\* C22: a set_target that raises is caught in the worker: the worker goes
\* straight to its finally block with its remaining steps left out, the
\* caller and the manager's fields are not touched by the failure, the
\* worker then ends, and when it ends with its behavior in
\* current_behavior the slot is cleared.
C22_ActuatorFailureContained ==
    /\ [][\A w \in 1..MaxWorkers :
             /\ sched_step' = [op |-> "raise", worker |-> w] =>
                   /\ workers'[w].pc = "finally"
                   /\ workers'[w].i = workers[w].i
                   /\ caller'.pc = caller.pc
                   /\ UNCHANGED <<current_behavior, behavior_thread,
                                  stop_flag, behaviors_executed,
                                  behaviors_interrupted>>
             /\ Failed(w) =>
                   /\ workers'[w].pc \in {"finally", "done"}
                   /\ (workers'[w].pc = "done"
                        /\ current_behavior = workers[w].behavior)
                      => current_behavior' = NoBehavior]_vars
    /\ \A w \in 1..MaxWorkers : Failed(w) ~> ~IsAlive(workers, w)

\* set_target has just raised in the worker of the active behavior at a
\* step that is not its last one
C22_Witness ==
    /\ sched_step.op = "raise"
    /\ Failed(sched_step.worker)
    /\ workers[sched_step.worker].i < workers[sched_step.worker].behavior.steps
    /\ sched_step.worker = behavior_thread
    /\ current_behavior = workers[sched_step.worker].behavior

\* C23: a PERSON_RECOGNIZED event whose person is in greeted_persons is
\* dropped at once: the thread makes no gesture and no speech call and
\* pending_greetings, greeting_in_progress, total_greetings and the latency
\* samples stay as they are.
C23_GreetedPersonIsIgnored ==
    [][coord_step'.op \in {"discarded", "arrived"} =>
          /\ coord_step'.op = "discarded"
                <=> coord_step'.person \in greeted_persons
          /\ coord_step'.op = "discarded" =>
                UNCHANGED <<greeted_persons, greeting_in_progress,
                            pending_greetings, total_greetings, latencies,
                            handlers>>]_vars

\* an event for a greeted person has just been dropped while nothing was
\* in progress
C23_Witness ==
    /\ coord_step.op = "discarded"
    /\ coord_step.person \in greeted_persons
    /\ ~greeting_in_progress
    /\ total_greetings > 0

\* C24: at every instant at most one thread is executing
\* _execute_greeting (gesture request, offset sleep, speech call), whether
\* its response was started by an arriving event or taken from the queue.
C24_SingleFlight == Cardinality(Executing(handlers)) <= 1

\* the queued events whose person is not greeted yet
Eligible(es, greeted) ==
    {i \in DOMAIN es : es[i].person_name \notin greeted}

\* the thread picks from the entries it has sorted one of maximal
\* confidence among those whose person is not greeted yet, whenever there
\* is one
TakesBest(t) ==
    /\ (Eligible(handlers[t].saved, greeted_persons) /= {})
          <=> (coord_step'.op = "found")
    /\ coord_step'.op = "found" =>
          /\ \E i \in Eligible(handlers[t].saved, greeted_persons) :
                /\ Unheld(handlers[t].saved[i]) = handlers'[t].event
                /\ \A j \in Eligible(handlers[t].saved, greeted_persons) :
                      handlers[t].saved[j].confidence
                         <= handlers[t].saved[i].confidence
          /\ handlers'[t].pc = "remove"

\* C25: an event that arrives while a response is in progress is appended
\* to pending_greetings and not served, and every time a thread takes the
\* next event from the queue it takes one of maximal confidence among the
\* queued events whose person is not greeted yet.
C25_QueuedAndServedByConfidence ==
    [][\A t \in 1..MaxThreads :
          /\ (handlers[t].pc = "enter" /\ coord_step'.thread = t
                 /\ coord_step'.op \in {"queued", "started"}
                 /\ InResponse(handlers) /= {}) =>
                /\ coord_step'.op = "queued"
                /\ pending_greetings' =
                      Append(pending_greetings, handlers[t].event)
                /\ handlers'[t].pc = "idle"
          /\ (handlers[t].pc = "sorting" /\ coord_step'.thread = t
                 /\ coord_step'.op \in {"found", "drained"}) => TakesBest(t)]_vars

C27_SpeechFailureStillGreets ==
    [][\A t \in 1..MaxThreads :
          (/\ coord_step'.op = "recovered" /\ coord_step'.thread = t
           /\ handlers[t].done = <<"gesture", "speech">>
           /\ handlers[t].raised)
          => /\ handlers[t].event.person_name \in greeted_persons'
             /\ latencies' > 0]_vars

\* C28: greeting_in_progress is True only while some thread is inside a
\* response. A gesture request or speech call that raises, in a response
\* started directly or from the queue, ends that response: the next step
\* of its thread logs the error, sets greeting_in_progress to False and
\* goes on to drain pending_greetings; the exception does not leave
\* _on_person_recognized. An event that passes the greeted test while no
\* thread is inside a response starts a new response.
C28_FailedResponseReleasesFlag ==
    /\ [](greeting_in_progress => InResponse(handlers) /= {})
    /\ [][\A t \in 1..MaxThreads :
             /\ (coord_step'.thread = t /\ coord_step'.op \in {"gesture", "speech"}
                    /\ handlers'[t].raised)
                   => handlers'[t].pc = "finally"
             /\ (handlers[t].raised /\ handlers'[t] /= handlers[t])
                   => /\ coord_step' = [op |-> "recovered", thread |-> t,
                                        person |-> "nobody"]
                      /\ ~greeting_in_progress'
                      /\ handlers'[t].pc = "drain"
                      /\ pending_greetings' = pending_greetings
             /\ (coord_step'.op = "escaped" /\ coord_step'.thread = t)
                   => (handlers[t].pc \in {"sorting", "remove"}
                          /\ ~handlers[t].raised)
             /\ (handlers[t].pc = "enter" /\ handlers'[t] /= handlers[t]
                    /\ InResponse(handlers) = {})
                   => /\ coord_step'.op = "started"
                      /\ handlers'[t].pc = "gesture"
                      /\ greeting_in_progress']_vars

\* after one greeting has completed, a call of a later response has
\* raised while another event was waiting; the flag is free again and the
\* thread is about to drain the queue
C28_Witness ==
    /\ coord_step.op = "recovered"
    /\ ~greeting_in_progress
    /\ handlers[coord_step.thread].pc = "drain"
    /\ pending_greetings /= <<>>
    /\ total_greetings = 1

\* C29: reset_session empties greeted_persons and pending_greetings and
\* leaves greeting_in_progress, total_greetings, the latency samples and
\* every thread where it is, so that a response in flight goes on to its
\* speech call; an event of a person greeted before the reset is no
\* longer discarded.
C29_ResetClearsSessionOnly ==
    [][/\ coord_step'.op = "reset" =>
             /\ greeted_persons' = {}
             /\ pending_greetings' = <<>>
             /\ greeting_in_progress' = greeting_in_progress
             /\ total_greetings' = total_greetings
             /\ latencies' = latencies
             /\ handlers' = handlers
       /\ \A t \in 1..MaxThreads :
             (coord_step.op = "reset" /\ coord_step'.thread = t
                 /\ handlers[t].pc = "speech")
             => /\ coord_step'.op = "speech"
                /\ handlers'[t].done = <<"gesture", "speech">>
       /\ (coord_step.op = "reset" /\ coord_step'.op \in {"arrived", "discarded"})
             => coord_step'.op = "arrived"]_vars

\* Alice has been greeted, the session is reset while Bob's response waits
\* for its speech call, and Alice's next event is accepted
C29_Witness ==
    /\ coord_step = [op |-> "arrived", thread |-> 2, person |-> "Alice"]
    /\ total_greetings = 1
    /\ greeted_persons = {}
    /\ handlers[1].pc = "speech"
    /\ handlers[1].event.person_name = "Bob"

\* the persons with an event in the queue
Queued == {pending_greetings[i].person_name : i \in DOMAIN pending_greetings}

\* the persons for whom some thread has requested the gesture and invoked
\* the speech
Served ==
    {handlers[t].event.person_name :
        t \in {u \in DOMAIN handlers :
                  handlers[u].done = <<"gesture", "speech">>}}

\* C30: in one session and under fair scheduling, a person who has an
\* event in pending_greetings and is not greeted is eventually served or
\* greeted; when every thread is outside _on_person_recognized the queue
\* holds no event of a person who is not greeted; and a thread that drains
\* the queue eventually leaves _on_person_recognized.
C30_QueuedEventsAreServed ==
    /\ []((\A t \in DOMAIN handlers : handlers[t].pc = "idle")
            => Eligible(pending_greetings, greeted_persons) = {})
    /\ \A p \in People :
          (p \in Queued /\ p \notin greeted_persons)
             ~> (p \in greeted_persons \/ p \in Served)
    /\ \A t \in 1..MaxThreads :
          (handlers[t].pc = "drain") ~> (handlers[t].pc = "idle")

\* C31: an announce event for an identity is emitted only by a call that
\* makes the identity observed in debounce_frames consecutive calls; more
\* than one result with the same name in one call counts as one call.
C31_AnnounceNeedsFullRun ==
    last_op = "submit" =>
        \A n \in Names :
            CountAnnounces(n, events) > 0 => presence[n].run >= debounce_frames

\* the events for which callback callback_id was invoked, in order
DeliveredTo(callback_id, log) ==
    LET F[k \in 0..Len(log)] ==
            IF k = 0 THEN <<>>
            ELSE IF log[k].callback_id = callback_id
                 THEN Append(F[k - 1], log[k].event)
                 ELSE F[k - 1]
    IN  F[Len(log)]

\* the events of evs of kind event_type, in order
OfKind(event_type, evs) ==
    SelectSeq(evs, LAMBDA e : e.event_type = event_type)

\* the log is ordered by event: no invocation for a later event of the call
\* comes before an invocation for an earlier one
InEventOrder(log, evs) ==
    \A a, b \in DOMAIN log :
        a < b => \E i, j \in DOMAIN evs :
                    /\ i <= j /\ evs[i] = log[a].event /\ evs[j] = log[b].event

\* C32: the list a call returns holds the events the call put into the
\* history, in that order, and every callback is invoked for the returned
\* events of its kind, in that order; when a callback runs, its event is
\* already in the history and the identity of an announce already has
\* event_triggered set; every PERSON_DEPARTED of a call precedes its
\* NO_FACES, and a call that ends with nothing tracked after a departure
\* (its batch is empty then) emits NO_FACES.
C32_ReturnedEqualsRecordedAndDelivered ==
    last_op = "submit" =>
        /\ LET k == Min(Len(events), max_history)
           IN  Tail_(event_history, Min(k, Len(event_history)))
                  = Tail_(events, k)
        /\ \A t \in EventType : \A j \in DOMAIN callbacks[t] :
              DeliveredTo(callbacks[t][j].callback_id, callback_log)
                 = OfKind(t, events)
        /\ InEventOrder(callback_log, events)
        /\ \A k \in DOMAIN callback_log :
              callback_log[k].recorded /\ callback_log[k].flagged
        /\ \A i, j \in DOMAIN events :
              (events[i].event_type = PERSON_DEPARTED
                  /\ events[j].event_type = NO_FACES) => i < j
        /\ (\E i \in DOMAIN events : events[i].event_type = PERSON_DEPARTED)
              /\ current_state = <<>>
              => events[Len(events)].event_type = NO_FACES

\* both identities depart in a call without observations, which also emits
\* NO_FACES, and subscribers of PERSON_DEPARTED and of NO_FACES are invoked
C32_Witness ==
    /\ last_op = "submit"
    /\ Len(events) = 3
    /\ events[3].event_type = NO_FACES
    /\ \E k \in DOMAIN callback_log :
          callback_log[k].event.event_type = PERSON_DEPARTED
    /\ \E k \in DOMAIN callback_log :
          callback_log[k].event.event_type = NO_FACES

\* C33: no identity in current_state has been absent for departed_frames
\* or more consecutive calls, whether it was announced or not (so that
\* current_state empties, and NO_FACES can be emitted, once the batches
\* stay empty).
C33_AbsentIdentitiesAreDropped ==
    \A i \in DOMAIN current_state :
        current_state[i].departed_frames < departed_frames

\* the threads inside _process_pending_greetings and not inside a response
Draining(hs) ==
    {t \in DOMAIN hs : hs[t].pc \in {"drain", "sorting", "remove", "relock"}}

\* C34: whenever no response is in progress and no thread is inside the
\* drain, pending_greetings is empty.
C34_QuiescentQueueIsEmpty ==
    (/\ ~greeting_in_progress
     /\ InResponse(handlers) = {}
     /\ Draining(handlers) = {})
    => pending_greetings = <<>>

\* C35: the speech call is never made for a person who is in
\* greeted_persons, that is, for whom a speech call has already returned
\* since the last reset_session.
C35_OneSpeechPerPerson ==
    [][\A t \in 1..MaxThreads :
          (coord_step'.op = "speech" /\ coord_step'.thread = t)
          => handlers[t].event.person_name \notin greeted_persons]_vars

\* C36: the speech call and the marking of a subject as greeted are made
\* only by a response whose execute_behavior(greeting_wave) call returned
\* True.
C36_GreetedOnlyWithAcceptedGesture ==
    [][\A t \in 1..MaxThreads :
          (coord_step'.op \in {"speech", "marked"} /\ coord_step'.thread = t)
          => handlers[t].done[1] = "gesture"]_vars

\* C37: a response that was under way when reset_session was called adds
\* nobody to greeted_persons: the set holds only subjects whose response
\* was started after the last reset.
C37_OvertakenResponseDoesNotMark ==
    [][\A t \in 1..MaxThreads :
          (coord_step'.op = "marked" /\ coord_step'.thread = t
              /\ t \in overtaken)
          => greeted_persons' = greeted_persons]_vars

\* the accepted call whose behavior occupies current_behavior
Occupying == IF current_behavior /= NoBehavior THEN 1 ELSE 0

\* C38: in every state behaviors_executed + behaviors_interrupted equals
\* the number of execute_behavior calls that returned True, less the one
\* whose behavior is in current_behavior; and a worker that ends counts
\* its behavior as executed exactly when that behavior was not counted as
\* interrupted, so that no accepted behavior is counted twice or not at all.
C38_CountersAreConserved ==
    /\ [](behaviors_executed + behaviors_interrupted
             = calls_accepted - Occupying)
    /\ [][\A w \in DOMAIN workers :
             (sched_step'.op = "finish" /\ sched_step'.worker = w)
             => (behaviors_executed' = behaviors_executed + 1
                    <=> ~workers[w].preempted)]_vars

\* the sum alone
C38_SumIsConserved ==
    behaviors_executed + behaviors_interrupted = calls_accepted - Occupying

\* C39: when the worker that is being stopped has seen stop_flag at the
\* head of its loop before the join in stop_current returns, it has
\* terminated when the join returns: the join does not time out and the new
\* worker is started with the old one no longer alive.
C39_CancelledWorkerEndsTheWait ==
    [][(/\ sched_step'.op = "joined"
        /\ IsAlive(workers, behavior_thread)
        /\ workers[behavior_thread].cancelled)
       => (~timed_out' /\ ~IsAlive(workers', behavior_thread))]_vars

\* C40: idle becomes active, and a drift is handed to the scheduler, only
\* when notify_no_faces was the last notification; and notify_face_detected
\* leaves idle not active.
C40_IdleOnlyAfterNoFaces ==
    [][/\ idle_step'.op \in {"activated", "submitted"}
             => last_notice = "no_faces"
       /\ idle_step'.op = "face" => ~idle_active']_vars

====
